---- MODULE Spec2Model ----
(***************************************************************************)
(* Model of the Polymarket multi-strategy bot (src/polymarket_bot):        *)
(*   - TradeSimulator   (utils/trade_simulator.py)   specification SimSpec *)
(*   - RiskManager      (utils/risk_manager.py)      specification RiskSpec*)
(*   - the strategy loops (strategies/*.py)          specification StratSpec*)
(*                                                                         *)
(* Numbers.  Python floats are modelled by exact integers:                 *)
(*   prices        in thousandths      (1.0 is 1000, 0.99 is 990)          *)
(*   money (USD)   in thousandths      (100 USD is 100000)                 *)
(*   rates         in percent          (0.02 is 2, 0.1 is 10)              *)
(*   time          in seconds          (a date is now \div 86400)          *)
(* so that price * amount is money without a conversion.  The inputs are   *)
(* drawn from sets on which the products and quotients the code computes   *)
(* are integers, except roi_pct, which is floored to whole percent.        *)
(* Optional values: None is <<>>, a present value x is <<x>>.              *)
(***************************************************************************)
EXTENDS Integers, Sequences, FiniteSets, TLC

VARIABLES
    \* ---- TradeSimulator (trade_simulator.py:89-105)
    simulated_trades,   \* List[SimulatedTrade]
    total_trades,
    resolved_trades,
    winning_trades,
    losing_trades,
    total_pnl,
    session_file,       \* the JSONL session log: one snapshot per line
    \* ---- RiskManager (risk_manager.py:16-34)
    max_total_exposure_usd,
    max_positions,
    max_loss_per_day_usd,
    emergency_stop_loss_pct,
    max_position_size_usd,
    risk_per_trade,
    daily_pnl,          \* List[Dict]: pnl, strategy, timestamp
    total_exposure,
    emergency_stop_triggered,
    \* ---- BaseStrategy, one instance per strategy (base_strategy.py:21-36)
    positions,          \* List[Position]
    performance,        \* StrategyPerformance
    running,
    testing_mode,       \* trade_simulator is not None
    pc,                 \* where each strategy's run() coroutine stands
    \* ---- PolymarketBot and the run_bot() coroutine (bot.py:30-41, 373-386)
    bot,
    \* ---- the wall clock read by datetime.now() and time.time()
    now,
    \* ---- observation of the calls made (not program state)
    last_call           \* the most recent call: its name, arguments and result

simVars == <<simulated_trades, total_trades, resolved_trades, winning_trades,
             losing_trades, total_pnl, session_file>>
riskConfig == <<max_total_exposure_usd, max_positions, max_loss_per_day_usd,
                emergency_stop_loss_pct, max_position_size_usd, risk_per_trade>>
riskState == <<daily_pnl, total_exposure, emergency_stop_triggered>>
riskVars == <<riskConfig, riskState, now>>
stratVars == <<positions, performance, running, testing_mode, pc>>
vars == <<simVars, riskVars, stratVars, bot, last_call>>

None == <<>>
Some(x) == <<x>>

RECURSIVE SumSeq(_)
SumSeq(s) == IF s = <<>> THEN 0 ELSE Head(s) + SumSeq(Tail(s))

\* [f(s[i]) : i in 1..Len(s)], as a sequence

\* the elements of s that satisfy Test, in order

(***************************************************************************)
(* Bounds of the model                                                     *)
(***************************************************************************)
MaxTrades == 2          \* simulated trades logged in one session
MaxRecords == 5         \* lines written to the session log

(***************************************************************************)
(* TradeSimulator                                                          *)
(***************************************************************************)
PENDING == "PENDING"
MONITORING == "MONITORING"
RESOLVED == "RESOLVED"
EXPIRED == "EXPIRED"
CANCELLED == "CANCELLED"
SimulatedTradeStatus == {PENDING, MONITORING, RESOLVED, EXPIRED, CANCELLED}

\* the arguments the callers draw from
SimStrategies == {"CombinatorialArbitrage", "MarketMaking"}
Tokens == {"A"}
Sides == {"BUY", "SELL"}
EntryPrices == {400}
Amounts == {250}
ExitPrices == {200, 800}
FinalPrices == {0, 1000}
Outcomes == {"YES", "NO"}

\* the trade constructed as one already being monitored
SimulatedTrade_Monitoring(strategy, token_id, side, entry_price, amount) ==
    [strategy |-> strategy, token_id |-> token_id, side |-> side,
     entry_price |-> entry_price, amount |-> amount, status |-> MONITORING,
     exit_price |-> None, resolution_outcome |-> None,
     gross_pnl |-> 0, fees |-> 0, net_pnl |-> 0, roi_pct |-> 0,
     would_have_exited |-> FALSE, exit_reason |-> None]

\* SimulatedTrade(...) as log_trade constructs it; the defaults of the dataclass
SimulatedTrade(strategy, token_id, side, entry_price, amount) ==
    [strategy |-> strategy, token_id |-> token_id, side |-> side,
     entry_price |-> entry_price, amount |-> amount, status |-> PENDING,
     exit_price |-> None, resolution_outcome |-> None,
     gross_pnl |-> 0, fees |-> 0, net_pnl |-> 0, roi_pct |-> 0,
     would_have_exited |-> FALSE, exit_reason |-> None]

\* x * 0.02
FeeOn(x) == (x * 2) \div 100

\* (net_pnl / cost_basis) * 100 if cost_basis > 0 else 0
RoiPct(net_pnl, cost_basis) ==
    IF cost_basis > 0 THEN (net_pnl * 100) \div cost_basis ELSE 0

\* the trade as update_trade_exit leaves it
ExitedTrade(trade, exit_price, exit_reason) ==
    LET cost_basis == trade.entry_price * trade.amount
        gross_pnl == IF trade.side = "BUY"
                     THEN (exit_price - trade.entry_price) * trade.amount
                     ELSE (trade.entry_price - exit_price) * trade.amount
        fees == IF gross_pnl > 0 THEN FeeOn(gross_pnl) ELSE trade.fees
        net_pnl == gross_pnl - fees
    IN  [trade EXCEPT !.would_have_exited = TRUE,
                      !.exit_price = Some(exit_price),
                      !.exit_reason = Some(exit_reason),
                      !.status = MONITORING,
                      !.gross_pnl = gross_pnl,
                      !.fees = fees,
                      !.net_pnl = net_pnl,
                      !.roi_pct = RoiPct(net_pnl, cost_basis)]

\* the trade as resolve_trade leaves it
ResolvedTrade(trade, actual_outcome, final_price) ==
    LET cost_basis == trade.entry_price * trade.amount
        gross_value == IF trade.side = "BUY"
                       THEN final_price * trade.amount
                       ELSE (1000 - final_price) * trade.amount
        gross_pnl == gross_value - cost_basis
        fees == IF gross_pnl > 0 THEN FeeOn(gross_value) ELSE 0
        net_pnl == gross_pnl - fees
    IN  [trade EXCEPT !.status = RESOLVED,
                      !.resolution_outcome = Some(actual_outcome),
                      !.gross_pnl = gross_pnl,
                      !.fees = fees,
                      !.net_pnl = net_pnl,
                      !.roi_pct = RoiPct(net_pnl, cost_basis)]

\* the file opened for writing, not for appending
WriteTradeToFile_Rewrites(file, trade) == <<trade>>

\* _write_trade_to_file: append one line, the trade's to_dict()
WriteTradeToFile(file, trade) == Append(file, trade)

log_trade(strategy, token_id, side, entry_price, amount) ==
    LET trade == SimulatedTrade(strategy, token_id, side, entry_price, amount)
    IN  /\ Len(simulated_trades) < MaxTrades
        /\ Len(session_file) < MaxRecords
        /\ simulated_trades' = Append(simulated_trades, trade)
        /\ total_trades' = total_trades + 1
        /\ session_file' = WriteTradeToFile(session_file, trade)
        /\ last_call' = [op |-> "log_trade", seq |-> 0, trade |-> Len(simulated_trades) + 1]
        /\ UNCHANGED <<resolved_trades, winning_trades, losing_trades, total_pnl>>
        /\ UNCHANGED <<riskVars, stratVars, bot>>

update_trade_exit(i, exit_price, exit_reason) ==
    LET trade == ExitedTrade(simulated_trades[i], exit_price, exit_reason)
    IN  /\ Len(session_file) < MaxRecords
        /\ simulated_trades' = [simulated_trades EXCEPT ![i] = trade]
        /\ session_file' = WriteTradeToFile(session_file, trade)
        /\ last_call' = [op |-> "update_trade_exit", seq |-> 0, trade |-> i]
        /\ UNCHANGED <<total_trades, resolved_trades, winning_trades,
                       losing_trades, total_pnl>>
        /\ UNCHANGED <<riskVars, stratVars, bot>>

resolve_trade(i, actual_outcome, final_price) ==
    LET trade == ResolvedTrade(simulated_trades[i], actual_outcome, final_price)
    IN  /\ Len(session_file) < MaxRecords
        /\ simulated_trades' = [simulated_trades EXCEPT ![i] = trade]
        /\ resolved_trades' = resolved_trades + 1
        /\ total_pnl' = total_pnl + trade.net_pnl
        /\ IF trade.net_pnl > 0
           THEN /\ winning_trades' = winning_trades + 1
                /\ UNCHANGED losing_trades
           ELSE /\ losing_trades' = losing_trades + 1
                /\ UNCHANGED winning_trades
        /\ session_file' = WriteTradeToFile(session_file, trade)
        /\ last_call' = [op |-> "resolve_trade", seq |-> 0, trade |-> i]
        /\ UNCHANGED total_trades
        /\ UNCHANGED <<riskVars, stratVars, bot>>

\* get_pending_trades / get_monitoring_trades
IsPending(t) == t.status = PENDING
IsMonitoring(t) == t.status = MONITORING
IsResolved(t) == t.status = RESOLVED
get_pending_trades == SelectSeq(simulated_trades, IsPending)
get_monitoring_trades == SelectSeq(simulated_trades, IsMonitoring)

\* get_statistics: the counters, and the two list scans it makes
get_statistics ==
    [total_trades |-> total_trades,
     pending_trades |-> Len(get_pending_trades),
     monitoring_trades |-> Len(get_monitoring_trades),
     resolved_trades |-> resolved_trades,
     winning_trades |-> winning_trades,
     losing_trades |-> losing_trades,
     total_pnl |-> total_pnl]

\* TradeSimulator.__init__
SimInit ==
    /\ simulated_trades = <<>>
    /\ total_trades = 0
    /\ resolved_trades = 0
    /\ winning_trades = 0
    /\ losing_trades = 0
    /\ total_pnl = 0
    /\ session_file = <<>>

\* RiskManager.__init__ with the defaults of its signature
\* the four strategies, by the name each passes to BaseStrategy.__init__
Strategies == {"LatencyArbitrage", "BinaryHedging",
               "CombinatorialArbitrage", "MarketMaking"}

\* StrategyPerformance(strategy_name=name)
NoPerformance == [total_trades |-> 0, total_pnl |-> 0]

\* the enabled strategies as constructed, with or without a trade simulator;
\* only the constructors of SimStrategies take one
StrategiesCreated(enabled, with_simulator) ==
    /\ positions = [s \in Strategies |-> <<>>]
    /\ performance = [s \in Strategies |-> NoPerformance]
    /\ running = [s \in Strategies |-> FALSE]
    /\ testing_mode = [s \in Strategies |-> with_simulator /\ s \in SimStrategies]
    /\ pc = [s \in Strategies |-> IF s \in enabled THEN "created" ELSE "disabled"]

RiskDefaults ==
    /\ max_total_exposure_usd = 10000000
    /\ max_positions = 20
    /\ max_loss_per_day_usd = 500000
    /\ emergency_stop_loss_pct = 10
    /\ max_position_size_usd = 1000000
    /\ risk_per_trade = 2
    /\ daily_pnl = <<>>
    /\ total_exposure = 0
    /\ emergency_stop_triggered = FALSE
    /\ now = 0

NoCall == [op |-> "none", seq |-> 0]
\* a component driven through its own methods, with no orchestrator around it
NoBot == [at |-> "absent"]

\* The simulator driven through its public methods by any caller
SimSpecInit ==
    /\ SimInit /\ RiskDefaults /\ StrategiesCreated(Strategies, TRUE)
    /\ bot = NoBot /\ last_call = NoCall

SimNext ==
    \/ \E s \in SimStrategies, k \in Tokens, d \in Sides,
          p \in EntryPrices, a \in Amounts : log_trade(s, k, d, p, a)
    \/ \E i \in DOMAIN simulated_trades, p \in ExitPrices :
          update_trade_exit(i, p, "Take profit")
    \/ \E i \in DOMAIN simulated_trades, o \in Outcomes, p \in FinalPrices :
          resolve_trade(i, o, p)

SimSpec == SimSpecInit /\ [][SimNext]_vars

(***************************************************************************)
(* Claims about the TradeSimulator (SimSpec)                               *)
(***************************************************************************)
\* the counters recomputed from the trade list
IsWinner(t) == t.status = RESOLVED /\ t.net_pnl > 0
IsLoser(t) == t.status = RESOLVED /\ t.net_pnl <= 0
NetPnlOf(t) == t.net_pnl
RecountResolved == Len(SelectSeq(simulated_trades, IsResolved))
RecountWinning == Len(SelectSeq(simulated_trades, IsWinner))
RecountLosing == Len(SelectSeq(simulated_trades, IsLoser))
RecountPnl ==
    LET resolved == SelectSeq(simulated_trades, IsResolved)
    IN  SumSeq([i \in DOMAIN resolved |-> NetPnlOf(resolved[i])])

\* C1: resolve_trade is idempotent: a resolve_trade call on a trade that is
\* already RESOLVED (whatever the settlement price) changes neither the trade
\* (net_pnl, gross_pnl, fees, roi_pct, resolution_outcome), nor the session
\* counters, and appends no record to the session log.
C1_ResolveIsIdempotent ==
    [][(/\ last_call'.op = "resolve_trade"
        /\ simulated_trades[last_call'.trade].status = RESOLVED)
       => UNCHANGED simVars]_vars

\* C2: after any sequence of log_trade, update_trade_exit and resolve_trade
\* calls the incrementally maintained counters equal their recomputation
\* from the trade list.
C2_CountersEqualRecount ==
    /\ total_trades = Len(simulated_trades)
    /\ resolved_trades = RecountResolved
    /\ winning_trades = RecountWinning
    /\ losing_trades = RecountLosing
    /\ total_pnl = RecountPnl

\* C12: resolve_trade on a BUY trade records
\* gross = settlement price * qty - entry price * qty, a fee of 2% of that
\* profit when gross > 0 and no fee otherwise, net = gross - fee and
\* ROI = net / cost basis * 100 (entry 0.40, qty 250, settlement 1.0:
\* gross 150, fee 3, net 147, ROI 147%).
C12_ResolveBuyFeeOnProfit ==
    [][\A i \in DOMAIN simulated_trades, o \in Outcomes, p \in FinalPrices :
          (resolve_trade(i, o, p) /\ simulated_trades[i].side = "BUY") =>
             LET before == simulated_trades[i]
                 after == simulated_trades'[i]
                 costBasis == before.entry_price * before.amount
                 gross == p * before.amount - costBasis
                 fee == IF gross > 0 THEN FeeOn(gross) ELSE 0
                 net == gross - fee
             IN  /\ after.gross_pnl = gross
                 /\ after.fees = fee
                 /\ after.net_pnl = net
                 /\ after.roi_pct = RoiPct(net, costBasis)]_vars

\* the order of the statuses a trade goes through
StatusRank(status) ==
    CASE status = PENDING -> 1
      [] status = MONITORING -> 2
      [] OTHER -> 3

\* C13: update_trade_exit on a RESOLVED trade changes neither its status nor
\* its net_pnl, gross_pnl, fees or roi_pct, and the status of a trade only
\* ever moves PENDING -> MONITORING -> RESOLVED.
C13_ResolvedIsTerminal ==
    /\ [][\A i \in DOMAIN simulated_trades, p \in ExitPrices :
             (/\ update_trade_exit(i, p, "Take profit")
              /\ simulated_trades[i].status = RESOLVED)
                => LET before == simulated_trades[i]
                       after == simulated_trades'[i]
                   IN  /\ after.status = before.status
                       /\ after.net_pnl = before.net_pnl
                       /\ after.gross_pnl = before.gross_pnl
                       /\ after.fees = before.fees
                       /\ after.roi_pct = before.roi_pct]_vars
    /\ [][\A i \in DOMAIN simulated_trades :
             StatusRank(simulated_trades'[i].status)
                >= StatusRank(simulated_trades[i].status)]_vars

\* C23: the session log starts empty and every transition of a simulated
\* trade (log_trade, update_trade_exit, resolve_trade) appends exactly one
\* record, the full snapshot of the trade as the transition leaves it; the
\* records written before stay as they are, in their order.  The log
\* therefore has one record per transition made.
C23_LogIsAppendOnly ==
    /\ session_file = <<>>
    /\ [][last_call'.op \in {"log_trade", "update_trade_exit", "resolve_trade"}
            => /\ Len(session_file') = Len(session_file) + 1
               /\ SubSeq(session_file', 1, Len(session_file)) = session_file
               /\ session_file'[Len(session_file')]
                     = simulated_trades'[last_call'.trade]]_vars

\* C23 witness: a trade was logged, exited and resolved: three records, each
\* the snapshot of the trade at that transition
C23_Witness ==
    /\ last_call.op = "resolve_trade"
    /\ Len(session_file) = 3
    /\ session_file[1].status = PENDING
    /\ session_file[2].status = MONITORING
    /\ session_file[3].status = RESOLVED

\* C24: log_trade adds exactly one trade, in PENDING status, at the end of
\* the list, and returns it; it increments total_trades by one; the trades
\* logged before, resolved_trades, winning_trades, losing_trades and
\* total_pnl are unchanged.
C24_LogTradeFrame ==
    [][last_call'.op = "log_trade"
          => /\ Len(simulated_trades') = Len(simulated_trades) + 1
             /\ SubSeq(simulated_trades', 1, Len(simulated_trades)) = simulated_trades
             /\ simulated_trades'[Len(simulated_trades')].status = PENDING
             /\ last_call'.trade = Len(simulated_trades')
             /\ total_trades' = total_trades + 1
             /\ UNCHANGED <<resolved_trades, winning_trades, losing_trades,
                            total_pnl>>]_vars

\* C24 witness: a second trade has just been logged after the first was
\* resolved with a profit
C24_Witness ==
    /\ last_call.op = "log_trade"
    /\ Len(simulated_trades) = 2
    /\ simulated_trades[1].status = RESOLVED
    /\ total_pnl > 0
    /\ simulated_trades[2].status = PENDING

(***************************************************************************)
(* Position (models/position.py is not among the sources: its fields are   *)
(* those the strategies pass to Position(...), its cost_basis is the       *)
(* entry price times the quantity)                                         *)
(***************************************************************************)
OPEN == "OPEN"
CLOSED == "CLOSED"

\* a quantity  position_size_usd / price : kept as the quotient it is
Quot(n, d) == [num |-> n, den |-> d]

Position(position_id, token_id, entry_price, amount, side, strategy, entry_time, metadata) ==
    [position_id |-> position_id, token_id |-> token_id,
     entry_price |-> entry_price, amount |-> amount, side |-> side,
     strategy |-> strategy, entry_time |-> entry_time, metadata |-> metadata,
     status |-> OPEN, exit_price |-> None, exit_time |-> None,
     realized_pnl |-> 0]

\* Position.cost_basis = entry_price * amount
cost_basis(p) == (p.entry_price * p.amount.num) \div p.amount.den

(***************************************************************************)
(* RiskManager                                                             *)
(***************************************************************************)
MaxHeld == 2            \* positions in the list passed to can_open_position
MaxLedger == 2          \* record_pnl calls
MaxTicks == 1           \* steps of the wall clock

\* datetime.date(): the day a time falls on
DateOf(t) == t \div 86400
\* timedelta(days=7)
SevenDays == 604800

\* get_today_pnl
IsToday(record) == DateOf(record.timestamp) = DateOf(now)
PnlOf(record) == record.pnl
get_today_pnl ==
    LET today == SelectSeq(daily_pnl, IsToday)
    IN  SumSeq([i \in DOMAIN today |-> PnlOf(today[i])])

\* get_total_pnl
get_total_pnl == SumSeq([i \in DOMAIN daily_pnl |-> PnlOf(daily_pnl[i])])

\* the reasons can_open_position returns, with the limit each one quotes
ReasonEmergency == <<"Emergency stop triggered">>
ReasonMaxPositions == <<"Max positions reached", max_positions>>
ReasonPositionSize == <<"Position size exceeds max", max_position_size_usd>>
ReasonExposure == <<"Total exposure would exceed max", max_total_exposure_usd>>
ReasonDailyLoss == <<"Daily loss limit reached", max_loss_per_day_usd>>

Result(can_open, reason) == [can_open |-> can_open, reason |-> reason]

\* CanOpenVerdict with the exposure gate rejecting at the cap itself (>= for >)
CanOpenVerdict_CapExcluded(position_size_usd, current_positions) ==
    LET current_exposure == SumSeq([i \in DOMAIN current_positions |->
                                      cost_basis(current_positions[i])])
    IN  IF emergency_stop_triggered
          THEN Result(FALSE, Some(ReasonEmergency))
        ELSE IF Len(current_positions) >= max_positions
          THEN Result(FALSE, Some(ReasonMaxPositions))
        ELSE IF position_size_usd > max_position_size_usd
          THEN Result(FALSE, Some(ReasonPositionSize))
        ELSE IF current_exposure + position_size_usd >= max_total_exposure_usd
          THEN Result(FALSE, Some(ReasonExposure))
        ELSE IF get_today_pnl < -max_loss_per_day_usd
          THEN Result(FALSE, Some(ReasonDailyLoss))
        ELSE Result(TRUE, None)

\* CanOpenVerdict with the size gate tested before the position-count gate
CanOpenVerdict_SizeFirst(position_size_usd, current_positions) ==
    LET current_exposure == SumSeq([i \in DOMAIN current_positions |->
                                      cost_basis(current_positions[i])])
    IN  IF emergency_stop_triggered
          THEN Result(FALSE, Some(ReasonEmergency))
        ELSE IF position_size_usd > max_position_size_usd
          THEN Result(FALSE, Some(ReasonPositionSize))
        ELSE IF Len(current_positions) >= max_positions
          THEN Result(FALSE, Some(ReasonMaxPositions))
        ELSE IF current_exposure + position_size_usd > max_total_exposure_usd
          THEN Result(FALSE, Some(ReasonExposure))
        ELSE IF get_today_pnl < -max_loss_per_day_usd
          THEN Result(FALSE, Some(ReasonDailyLoss))
        ELSE Result(TRUE, None)

\* CanOpenVerdict with the daily-loss gate rejecting at the limit itself (<= for <)
CanOpenVerdict_LossInclusive(position_size_usd, current_positions) ==
    LET current_exposure == SumSeq([i \in DOMAIN current_positions |->
                                      cost_basis(current_positions[i])])
    IN  IF emergency_stop_triggered
          THEN Result(FALSE, Some(ReasonEmergency))
        ELSE IF Len(current_positions) >= max_positions
          THEN Result(FALSE, Some(ReasonMaxPositions))
        ELSE IF position_size_usd > max_position_size_usd
          THEN Result(FALSE, Some(ReasonPositionSize))
        ELSE IF current_exposure + position_size_usd > max_total_exposure_usd
          THEN Result(FALSE, Some(ReasonExposure))
        ELSE IF get_today_pnl <= -max_loss_per_day_usd
          THEN Result(FALSE, Some(ReasonDailyLoss))
        ELSE Result(TRUE, None)

\* can_open_position's verdict: (can_open, reason)
CanOpenVerdict(position_size_usd, current_positions) ==
    LET current_exposure == SumSeq([i \in DOMAIN current_positions |->
                                      cost_basis(current_positions[i])])
    IN  IF emergency_stop_triggered
          THEN Result(FALSE, Some(ReasonEmergency))
        ELSE IF Len(current_positions) >= max_positions
          THEN Result(FALSE, Some(ReasonMaxPositions))
        ELSE IF position_size_usd > max_position_size_usd
          THEN Result(FALSE, Some(ReasonPositionSize))
        ELSE IF current_exposure + position_size_usd > max_total_exposure_usd
          THEN Result(FALSE, Some(ReasonExposure))
        ELSE IF get_today_pnl < -max_loss_per_day_usd
          THEN Result(FALSE, Some(ReasonDailyLoss))
        ELSE Result(TRUE, None)

\* CanOpenEffect reserving the proposed size in total_exposure on admission
CanOpenEffect_Reserves(position_size_usd, current_positions) ==
    [daily_pnl |-> daily_pnl,
     total_exposure |->
        IF CanOpenVerdict(position_size_usd, current_positions).can_open
        THEN total_exposure + position_size_usd ELSE total_exposure,
     emergency_stop_triggered |-> emergency_stop_triggered,
     current_positions |-> current_positions]

\* what a can_open_position call leaves behind: the risk state and the list
\* it was passed
CanOpenEffect(position_size_usd, current_positions) ==
    [daily_pnl |-> daily_pnl, total_exposure |-> total_exposure,
     emergency_stop_triggered |-> emergency_stop_triggered,
     current_positions |-> current_positions]

\* observation: when the call before this one was can_open_position with the
\* same arguments, its result and the date it was made on
PreviousSameCall(position_size_usd, current_positions) ==
    IF /\ last_call.op = "can_open_position"
       /\ last_call.position_size_usd = position_size_usd
       /\ last_call.current_positions = current_positions
    THEN Some([result |-> last_call.result, date |-> last_call.date])
    ELSE None

can_open_position(position_size_usd, current_positions) ==
    LET after == CanOpenEffect(position_size_usd, current_positions)
    IN  /\ daily_pnl' = after.daily_pnl
        /\ total_exposure' = after.total_exposure
        /\ emergency_stop_triggered' = after.emergency_stop_triggered
        /\ last_call' = [op |-> "can_open_position", seq |-> 1 - last_call.seq,
                         position_size_usd |-> position_size_usd,
                         current_positions |-> current_positions,
                         positions_after |-> after.current_positions,
                         result |-> CanOpenVerdict(position_size_usd,
                                                   current_positions),
                         date |-> DateOf(now),
                         previous |-> PreviousSameCall(position_size_usd,
                                                       current_positions)]
        /\ UNCHANGED <<riskConfig, now, simVars, stratVars, bot>>

\* record_pnl without the clean-up of old records
LedgerAfter_KeepsAll(pnl, strategy) ==
    Append(daily_pnl, [pnl |-> pnl, strategy |-> strategy, timestamp |-> now])

\* the ledger as record_pnl leaves it
LedgerAfter(pnl, strategy) ==
    LET appended == Append(daily_pnl,
                           [pnl |-> pnl, strategy |-> strategy, timestamp |-> now])
        cutoff == now - SevenDays
        Recent(record) == record.timestamp >= cutoff
    IN  SelectSeq(appended, Recent)

record_pnl(pnl, strategy) ==
    /\ daily_pnl' = LedgerAfter(pnl, strategy)
    /\ last_call' = [op |-> "record_pnl", seq |-> 1 - last_call.seq,
                     pnl |-> pnl, strategy |-> strategy]
    /\ UNCHANGED <<riskConfig, total_exposure, emergency_stop_triggered, now,
                   simVars, stratVars, bot>>

\* StopFlagAfter with a strict comparison: a drawdown of exactly the limit
\* does not trigger
StopFlagAfter_Strict(account_balance, starting_balance) ==
    IF starting_balance = 0
    THEN emergency_stop_triggered
    ELSE IF (starting_balance - account_balance) * 100
              > emergency_stop_loss_pct * starting_balance
         THEN TRUE
         ELSE emergency_stop_triggered

\* StopFlagAfter assigning the comparison, so that a recovered balance clears
StopFlagAfter_Recovers(account_balance, starting_balance) ==
    IF starting_balance = 0
    THEN emergency_stop_triggered
    ELSE (starting_balance - account_balance) * 100
            >= emergency_stop_loss_pct * starting_balance

\* emergency_stop_triggered as check_emergency_stop leaves it
\* drawdown = (starting - balance) / starting >= pct / 100, starting > 0
StopFlagAfter(account_balance, starting_balance) ==
    IF starting_balance = 0
    THEN emergency_stop_triggered
    ELSE IF (starting_balance - account_balance) * 100
              >= emergency_stop_loss_pct * starting_balance
         THEN TRUE
         ELSE emergency_stop_triggered

check_emergency_stop(account_balance, starting_balance) ==
    /\ emergency_stop_triggered' = StopFlagAfter(account_balance, starting_balance)
    /\ last_call' = [op |-> "check_emergency_stop", seq |-> 1 - last_call.seq,
                     account_balance |-> account_balance,
                     starting_balance |-> starting_balance]
    /\ UNCHANGED <<riskConfig, daily_pnl, total_exposure, now, simVars, stratVars,
                   bot>>

reset_emergency_stop ==
    /\ emergency_stop_triggered' = FALSE
    /\ last_call' = [op |-> "reset_emergency_stop", seq |-> 1 - last_call.seq]
    /\ UNCHANGED <<riskConfig, daily_pnl, total_exposure, now, simVars, stratVars,
                   bot>>

\* the wall clock advances: by half a day, or by a little over a week
TickSteps == {43200, SevenDays + 43200}
TicksMade == (now \div (SevenDays + 43200))
                + ((now % (SevenDays + 43200)) \div 43200)
Tick(d) ==
    /\ TicksMade < MaxTicks
    /\ now' = now + d
    /\ UNCHANGED <<riskConfig, riskState, simVars, stratVars, bot, last_call>>

\* the arguments the callers draw from
ProposedSizes == {100000, 200000, 1100000}
HeldPosition(usd) ==
    Position(<<"held", usd>>, "A", 500, Quot(usd, 500), "BUY",
             "BinaryHedging", 0, [type |-> "discount"])
\* the caller's open positions: cost basis 300, 250, 300, ... USD
HeldList == [i \in 1..MaxHeld |->
                IF i % 2 = 1 THEN HeldPosition(300000) ELSE HeldPosition(250000)]
PositionLists == { SubSeq(HeldList, 1, n) : n \in 0..MaxHeld }
PnlAmounts == {-520000, 20000}
Balances == {900000, 950000, 1000000}
StartingBalances == {0, 1000000}

\* RiskManager(...) as the orchestrator constructs it from the configuration
RiskManagerCreated(exposure_cap, position_cap) ==
    /\ max_total_exposure_usd = exposure_cap
    /\ max_positions = position_cap
    /\ max_loss_per_day_usd = 500000
    /\ emergency_stop_loss_pct = 10
    /\ max_position_size_usd = 1000000
    /\ risk_per_trade = 2
    /\ daily_pnl = <<>>
    /\ total_exposure = 0
    /\ emergency_stop_triggered = FALSE
    /\ now = 0

\* the configured limits: <<max_total_exposure_usd, max_positions>>
RiskConfigs == { <<500000, 20>>, <<600000, 2>> }
RiskInit == \E c \in RiskConfigs : RiskManagerCreated(c[1], c[2])

RiskSpecInit ==
    /\ RiskInit /\ SimInit /\ StrategiesCreated(Strategies, FALSE)
    /\ bot = NoBot /\ last_call = NoCall

RiskNext ==
    \/ \E size \in ProposedSizes, held \in PositionLists :
          can_open_position(size, held)
    \/ \E pnl \in PnlAmounts :
          Len(daily_pnl) < MaxLedger /\ record_pnl(pnl, "BinaryHedging")
    \/ \E b \in Balances, s \in StartingBalances : check_emergency_stop(b, s)
    \/ reset_emergency_stop
    \/ \E d \in TickSteps : Tick(d)

RiskSpec == RiskSpecInit /\ [][RiskNext]_vars

(***************************************************************************)
(* RiskManager.calculate_position_size, a function of its arguments and    *)
(* of the limits (SizingSpec)                                              *)
(***************************************************************************)
\* PositionSize taking the edge as the fraction of the balance to risk
PositionSize_EdgeScaled(account_balance, edge, rate_given) ==
    LET position_size == (account_balance * edge) \div 100
    IN  IF position_size <= max_position_size_usd
        THEN position_size ELSE max_position_size_usd

\* the value calculate_position_size returns; rate_given is the optional
\* risk_per_trade argument, the rates are percentages
PositionSize(account_balance, edge, rate_given) ==
    LET rate == IF rate_given = None THEN risk_per_trade ELSE rate_given[1]
        position_size == (account_balance * rate) \div 100
    IN  IF position_size <= max_position_size_usd
        THEN position_size ELSE max_position_size_usd

calculate_position_size(account_balance, edge, rate_given) ==
    /\ last_call' = [op |-> "calculate_position_size", seq |-> 1 - last_call.seq,
                     account_balance |-> account_balance, edge |-> edge,
                     risk_per_trade |-> rate_given,
                     result |-> PositionSize(account_balance, edge, rate_given)]
    /\ UNCHANGED <<riskVars, simVars, stratVars, bot>>

\* the arguments the callers draw from: balances of 0, 1000, 10000 and
\* 100000 USD, edges of 0, 3 and 50 percent, the rate left out or 10 percent
AccountBalances == {0, 1000000, 10000000, 100000000}
Edges == {0, 3, 50}
RateArguments == {None, Some(10)}
\* the configured trading.max_position_size_usd and trading.risk_per_trade
PositionSizeCaps == {150000, 1000000}
RiskRates == {2, 5}

\* RiskManager(...) with the trading limits of the configuration
RiskManagerSized(size_cap, rate) ==
    /\ max_total_exposure_usd = 10000000
    /\ max_positions = 20
    /\ max_loss_per_day_usd = 500000
    /\ emergency_stop_loss_pct = 10
    /\ max_position_size_usd = size_cap
    /\ risk_per_trade = rate
    /\ daily_pnl = <<>>
    /\ total_exposure = 0
    /\ emergency_stop_triggered = FALSE
    /\ now = 0

SizingSpecInit ==
    /\ \E size_cap \in PositionSizeCaps, rate \in RiskRates :
          RiskManagerSized(size_cap, rate)
    /\ SimInit /\ StrategiesCreated(Strategies, FALSE)
    /\ bot = NoBot /\ last_call = NoCall

SizingNext ==
    \E b \in AccountBalances, e \in Edges, r \in RateArguments :
        calculate_position_size(b, e, r)

SizingSpec == SizingSpecInit /\ [][SizingNext]_vars

\* C14: calculate_position_size returns
\* min(balance * risk_per_trade, max_position_size_usd), risk_per_trade being
\* the rate in effect (the argument when one is passed, the configured rate
\* otherwise): the result is the same for every edge and never exceeds
\* max_position_size_usd.
C14_SizeIsCappedShare ==
    last_call.op = "calculate_position_size" =>
        LET rate == IF last_call.risk_per_trade = None
                    THEN risk_per_trade ELSE last_call.risk_per_trade[1]
            share == (last_call.account_balance * rate) \div 100
        IN  /\ share <= max_position_size_usd => last_call.result = share
            /\ share > max_position_size_usd
                  => last_call.result = max_position_size_usd
            /\ last_call.result <= max_position_size_usd
            /\ \A e \in Edges :
                  PositionSize(last_call.account_balance, e,
                               last_call.risk_per_trade) = last_call.result

\* C14 witness: balance 10000, risk_per_trade 0.02, per-position maximum
\* 1000, called with an edge of 3 percent: 200
C14_Witness ==
    /\ last_call.op = "calculate_position_size"
    /\ last_call.account_balance = 10000000
    /\ last_call.risk_per_trade = None /\ risk_per_trade = 2
    /\ last_call.edge = 3
    /\ max_position_size_usd = 1000000
    /\ last_call.result = 200000

(***************************************************************************)
(* Claims about the RiskManager (RiskSpec)                                 *)
(***************************************************************************)
\* a step that is a call of a RiskManager method (the clock's steps are not)
IsRiskCall == last_call'.seq # last_call.seq
CalledCanOpen == last_call.op = "can_open_position"
\* the state in which a can_open_position call has returned, before the date
\* of the wall clock has moved on
CanOpenReturned == CalledCanOpen /\ last_call.date = DateOf(now)
ExposureOf(held) == SumSeq([i \in DOMAIN held |-> cost_basis(held[i])])

\* C7: the emergency stop is monotone: while the flag is set every
\* can_open_position call returns (False, reason), and no call other than
\* reset_emergency_stop (check_emergency_stop with a recovered balance,
\* record_pnl, can_open_position) and no passing of time clears the flag.
C7_EmergencyStopMonotone ==
    /\ [](CalledCanOpen /\ emergency_stop_triggered
            => ~last_call.result.can_open /\ last_call.result.reason # None)
    /\ [][(emergency_stop_triggered /\ ~emergency_stop_triggered')
            => last_call'.op = "reset_emergency_stop" /\ IsRiskCall]_vars

\* C7 witness: with the flag set, a proposal that every other gate admits
\* (no positions held, a small size) was rejected, and the flag was set by a
\* check_emergency_stop call that has since been followed by other calls.
C7_Witness ==
    /\ CanOpenReturned
    /\ emergency_stop_triggered
    /\ last_call.current_positions = <<>>
    /\ last_call.position_size_usd = 100000
    /\ get_today_pnl = 0
    /\ last_call.result = Result(FALSE, Some(ReasonEmergency))

\* the four gates other than the exposure cap, on the arguments of the call
OtherGatesPass ==
    /\ ~emergency_stop_triggered
    /\ Len(last_call.current_positions) < max_positions
    /\ last_call.position_size_usd <= max_position_size_usd
    /\ get_today_pnl >= -max_loss_per_day_usd

\* C8: when the emergency-stop, position-count, per-position-size and
\* daily-loss gates pass, can_open_position admits iff E + S <= C, and a
\* rejection then carries the total-exposure reason; with cost bases 300 and
\* 250 held and cap 500 a proposal of 100 is rejected with that reason.
C8_AdmitsIffWithinCap ==
    (CanOpenReturned /\ OtherGatesPass) =>
        LET E == ExposureOf(last_call.current_positions)
            S == last_call.position_size_usd
        IN  /\ last_call.result.can_open <=> (E + S <= max_total_exposure_usd)
            /\ E + S > max_total_exposure_usd
                 => last_call.result = Result(FALSE, Some(ReasonExposure))
            /\ E + S <= max_total_exposure_usd
                 => last_call.result = Result(TRUE, None)

\* C8 witness: the scenario of the claim, 300 + 250 held, cap 500, proposal 100
C8_Witness ==
    /\ CanOpenReturned /\ OtherGatesPass
    /\ Len(last_call.current_positions) = 2
    /\ cost_basis(last_call.current_positions[1]) = 300000
    /\ cost_basis(last_call.current_positions[2]) = 250000
    /\ max_total_exposure_usd = 500000
    /\ last_call.position_size_usd = 100000
    /\ last_call.result = Result(FALSE, Some(<<"Total exposure would exceed max", 500000>>))

\* the gates that fail on the arguments of the call, in the order of the claim
GateFails(n) ==
    LET held == last_call.current_positions
        size == last_call.position_size_usd
    IN  CASE n = 1 -> emergency_stop_triggered
          [] n = 2 -> Len(held) >= max_positions
          [] n = 3 -> size > max_position_size_usd
          [] n = 4 -> ExposureOf(held) + size > max_total_exposure_usd
          [] n = 5 -> get_today_pnl < -max_loss_per_day_usd
GateReason(n) ==
    CASE n = 1 -> ReasonEmergency
      [] n = 2 -> ReasonMaxPositions
      [] n = 3 -> ReasonPositionSize
      [] n = 4 -> ReasonExposure
      [] n = 5 -> ReasonDailyLoss
Gates == 1..5

\* C9: the gates apply in the order emergency stop, position count, position
\* size, exposure cap, daily loss: the reason returned is that of the first
\* failing gate, and when none fails the result is (True, None).
C9_FirstFailingGate ==
    CanOpenReturned =>
        /\ \A n \in Gates :
              (GateFails(n) /\ \A k \in 1..(n - 1) : ~GateFails(k))
                 => last_call.result = Result(FALSE, Some(GateReason(n)))
        /\ (\A n \in Gates : ~GateFails(n)) => last_call.result = Result(TRUE, None)

\* C9 witness: the last four gates fail at once and the count gate answers
C9_Witness ==
    /\ CanOpenReturned
    /\ ~GateFails(1) /\ GateFails(2) /\ GateFails(3) /\ GateFails(4) /\ GateFails(5)
    /\ last_call.result = Result(FALSE, Some(ReasonMaxPositions))

\* a can_open_position call leaves the risk state, the limits and the list
\* it was passed as they were
CanOpenChangesNothing ==
    [][(IsRiskCall /\ last_call'.op = "can_open_position")
         => /\ UNCHANGED <<riskState, riskConfig>>
            /\ last_call'.positions_after = last_call'.current_positions]_vars

\* C10 as stated: no side effects, and two consecutive calls with the same
\* arguments and no call in between return the same result.
C10_PureAndRepeatable ==
    /\ CanOpenChangesNothing
    /\ [](CalledCanOpen /\ last_call.previous # None
            => last_call.previous[1].result = last_call.result)

\* C10 amended: no side effects, and two consecutive calls with the same
\* arguments, no call in between and made on the same date return the same
\* result (the daily-loss gate reads the date of the wall clock).
C10_PureAndRepeatableSameDate ==
    /\ CanOpenChangesNothing
    /\ [](CalledCanOpen /\ last_call.previous # None
                        /\ last_call.previous[1].date = last_call.date
            => last_call.previous[1].result = last_call.result)

\* C10 witness: an admitted proposal repeated on the same date, admitted again
C10_Witness ==
    /\ CalledCanOpen
    /\ last_call.previous = Some([result |-> Result(TRUE, None),
                                  date |-> last_call.date])
    /\ last_call.result = Result(TRUE, None)
    /\ riskState = <<daily_pnl, 0, FALSE>>

\* C11: when the ledger entries dated today sum to strictly less than
\* -max_loss_per_day_usd, can_open_position rejects whatever the size and the
\* positions passed; when they sum to -max_loss_per_day_usd or more, the
\* result never carries the daily-loss reason.
C11_DailyLossGate ==
    CanOpenReturned =>
        /\ get_today_pnl < -max_loss_per_day_usd
              => ~last_call.result.can_open /\ last_call.result.reason # None
        /\ get_today_pnl >= -max_loss_per_day_usd
              => last_call.result.reason # Some(ReasonDailyLoss)

\* C11 witness: -520 realized today against a limit of 500, and a proposal
\* that every other gate admits is rejected with the daily-loss reason
C11_Witness ==
    /\ CanOpenReturned
    /\ get_today_pnl = -520000
    /\ max_loss_per_day_usd = 500000
    /\ last_call.current_positions = <<>>
    /\ last_call.position_size_usd = 100000
    /\ last_call.result = Result(FALSE, Some(<<"Daily loss limit reached", 500000>>))

\* the boundary of C11: exactly -500 realized today, and the proposal admitted
C11_AtTheLimit ==
    /\ CanOpenReturned
    /\ get_today_pnl = -max_loss_per_day_usd
    /\ last_call.result = Result(TRUE, None)

(***************************************************************************)
(* The strategies: BaseStrategy and its four subclasses                    *)
(***************************************************************************)
MaxOpened == 2          \* positions held (all strategies) when one more opens
MaxSleeps == 1          \* steps of the wall clock between iterations

\* Position.calculate_pnl
calculate_pnl(p, current_price) ==
    IF p.side = "BUY"
    THEN ((current_price - p.entry_price) * p.amount.num) \div p.amount.den
    ELSE ((p.entry_price - current_price) * p.amount.num) \div p.amount.den

\* Position.close(exit_price, exit_time, exit_fee)
ClosedPosition(p, exit_price, exit_time, exit_fee) ==
    [p EXCEPT !.status = CLOSED,
              !.exit_price = Some(exit_price),
              !.exit_time = Some(exit_time),
              !.realized_pnl = calculate_pnl(p, exit_price) - exit_fee]

\* StrategyPerformance.update_from_position
update_from_position(perf, p) ==
    [total_trades |-> perf.total_trades + 1,
     total_pnl |-> perf.total_pnl + p.realized_pnl]

\* dict.get(key): None when the key is absent
Get(dict, key) == IF key \in DOMAIN dict THEN Some(dict[key]) ELSE None

\* One pass of a strategy's loop body works on its own strategy's state;
\* calls lists, in order, what the pass called on its collaborators (the
\* execution client, the risk manager, the trade simulator) and on itself;
\* reported lists the combos the pass logged as fully resolved.
PassStart(s) ==
    [positions |-> positions[s], performance |-> performance[s], calls |-> <<>>,
     reported |-> <<>>]
Did(st, call) == [st EXCEPT !.calls = Append(@, call)]

\* BaseStrategy.add_position
add_position(st, position) ==
    [Did(st, "add_position") EXCEPT !.positions = Append(@, position)]

\* a close that leaves the performance totals alone
close_position_Unfolded(st, i, exit_price) ==
    [Did(st, "close_position") EXCEPT
        !.positions[i] = ClosedPosition(st.positions[i], exit_price, now, 0)]

\* a close that books the proceeds of the sale, not the gain over the entry
close_position_ProceedsOnly(st, i, exit_price) ==
    LET p == st.positions[i]
        closed == [ClosedPosition(p, exit_price, now, 0) EXCEPT
                      !.realized_pnl = (exit_price * p.amount.num) \div p.amount.den]
    IN  [Did(st, "close_position") EXCEPT
            !.positions[i] = closed,
            !.performance = update_from_position(@, closed)]

\* BaseStrategy.close_position, on the i-th position of the list
close_position(st, i, exit_price) ==
    LET closed == ClosedPosition(st.positions[i], exit_price, now, 0)
    IN  [Did(st, "close_position") EXCEPT
            !.positions[i] = closed,
            !.performance = update_from_position(@, closed)]

\* BaseStrategy.get_open_positions
get_open_positions(held) == SelectSeq(held, LAMBDA p : p.status = OPEN)

\* what PolymarketClient.create_market_order / create_limit_order come back
\* with: the exchange's receipt, None (PolyApiException, caught by the
\* client), or another exception passing through the client
OrderResponses == {"order", "none", "raise"}
\* PolymarketClient.get_midpoint: None or a price
Midpoints == {None, Some(10), Some(400), Some(1000)}

\* ---- LatencyArbitrageStrategy
LatencyTokens == {"L"}
LatencyOpportunities == { [token_id |-> "L", current_price |-> 400] }

LatencyExecute(st, opportunity, responses) ==
    LET position_size_usd == 100000
        amount == Quot(position_size_usd, opportunity.current_price)
        ordered == Did(Did(st, "execute"), "create_market_order")
    IN  IF responses[1] = "order"
        THEN add_position(ordered,
                Position(<<"latency", now>>, opportunity.token_id,
                         opportunity.current_price, amount, "BUY",
                         "LatencyArbitrage", now, [direction |-> "UP"]))
        ELSE ordered

LatencyShouldExit(p, current_price) ==
    \/ current_price * 10 > p.entry_price * 15
    \/ current_price * 10 < p.entry_price * 8
    \/ (now - p.entry_time) % 86400 > 840

LatencyMonitor(st, mid, exit_response) ==
    LET Visit(acc, i) ==
            LET p == acc.positions[i]
                current_price == mid[p.token_id]
            IN  IF current_price = None THEN acc
                ELSE IF ~LatencyShouldExit(p, current_price[1]) THEN acc
                ELSE IF exit_response = "order"
                THEN close_position(Did(acc, "create_market_order"), i,
                                    current_price[1])
                ELSE Did(acc, "create_market_order")
        \* for position in open_positions: the positions not yet visited
        \* keep their status, so the snapshot is the list itself
        after[i \in 0..Len(st.positions)] ==
            IF i = 0 THEN st
            ELSE IF st.positions[i].status = OPEN THEN Visit(after[i - 1], i)
            ELSE after[i - 1]
    IN  after[Len(st.positions)]

\* ---- BinaryHedgingStrategy
BinaryMaxPositions == 2     \* config.get('max_positions', 10), as configured
BinaryTokens == {"BY", "BN"}
BinaryOpportunities ==
    { [type |-> "discount", token_id |-> "BY", current_price |-> 400,
       outcome |-> "Yes", avg_price |-> 500],
      [type |-> "sum_arbitrage",
       tokens |-> << [token_id |-> "BY", price |-> 400, outcome |-> "Yes"],
                     [token_id |-> "BN", price |-> 500, outcome |-> "No"] >>] }

execute_discount_trade(st, opportunity, responses) ==
    LET position_size_usd == 100000
        amount == Quot(position_size_usd, opportunity.current_price)
        ordered == Did(st, "create_market_order")
    IN  IF responses[1] = "order"
        THEN add_position(ordered,
                Position(<<"binary", now>>, opportunity.token_id,
                         opportunity.current_price, amount, "BUY",
                         "BinaryHedging", now,
                         [type |-> "discount",
                          avg_price |-> opportunity.avg_price]))
        ELSE ordered

execute_sum_arbitrage(st, opportunity, responses) ==
    LET position_size_usd == 50000
        LegPosition(token_info) ==
            Position(<<"binary_arb", now, token_info.outcome>>,
                     token_info.token_id, token_info.price,
                     Quot(position_size_usd, token_info.price), "BUY",
                     "BinaryHedging", now, [type |-> "sum_arbitrage"])
        \* one order per leg, in order: a response of None skips the leg, an
        \* exception ends the loop (execute catches it)
        after[k \in 0..Len(opportunity.tokens)] ==
            IF k = 0 THEN [st |-> st, raised |-> FALSE]
            ELSE LET before == after[k - 1]
                     ordered == Did(before.st, "create_market_order")
                 IN  IF before.raised THEN before
                     ELSE IF responses[k] = "raise"
                       THEN [st |-> ordered, raised |-> TRUE]
                     ELSE IF responses[k] = "order"
                       THEN [st |-> add_position(ordered, LegPosition(opportunity.tokens[k])),
                             raised |-> FALSE]
                     ELSE [st |-> ordered, raised |-> FALSE]
    IN  after[Len(opportunity.tokens)].st

BinaryExecute(st, opportunity, responses) ==
    IF opportunity.type = "sum_arbitrage"
    THEN execute_sum_arbitrage(Did(st, "execute"), opportunity, responses)
    ELSE execute_discount_trade(Did(st, "execute"), opportunity, responses)

BinaryShouldExit(p, current_price) ==
    LET position_type == Get(p.metadata, "type")
        avg_price == Get(p.metadata, "avg_price")
    IN  \/ /\ position_type = Some("discount")
           /\ \/ /\ avg_price # None
                 /\ avg_price[1] # 0
                 /\ current_price * 100 >= avg_price[1] * 98
              \/ current_price * 10 > p.entry_price * 12
              \/ current_price * 10 < p.entry_price * 9
        \/ /\ position_type = Some("sum_arbitrage")
           /\ current_price * 100 > p.entry_price * 105
        \/ current_price >= 990
        \/ current_price <= 10

BinaryMonitor(st, mid, exit_response) ==
    LET Visit(acc, i) ==
            LET p == acc.positions[i]
                current_price == mid[p.token_id]
            IN  IF current_price = None THEN acc
                ELSE IF ~BinaryShouldExit(p, current_price[1]) THEN acc
                ELSE IF exit_response = "order"
                THEN close_position(Did(acc, "create_market_order"), i,
                                    current_price[1])
                ELSE Did(acc, "create_market_order")
        \* for position in open_positions: the positions not yet visited
        \* keep their status, so the snapshot is the list itself
        after[i \in 0..Len(st.positions)] ==
            IF i = 0 THEN st
            ELSE IF st.positions[i].status = OPEN THEN Visit(after[i - 1], i)
            ELSE after[i - 1]
    IN  after[Len(st.positions)]

\* ---- CombinatorialArbitrageStrategy
ComboTokens == {"C1", "C2"}
ComboMarkets ==
    << [token_id |-> "C1", probability |-> 400, outcome |-> "Yes"],
       [token_id |-> "C2", probability |-> 500, outcome |-> "Yes"] >>
ComboOpportunities ==
    { [edge_type |-> "underpriced", markets |-> ComboMarkets,
       total_probability |-> 900],
      [edge_type |-> "overpriced", markets |-> ComboMarkets,
       total_probability |-> 1100] }

\* allocation = total_capital * (prob / total_prob); amount = allocation / prob
execute_buy_all(st, opportunity, responses) ==
    LET total_capital == 100000
        LegPosition(market_info) ==
            Position(<<"combo", now, market_info.outcome>>,
                     market_info.token_id, market_info.probability,
                     Quot(total_capital, opportunity.total_probability), "BUY",
                     "CombinatorialArbitrage", now,
                     [type |-> "buy_all", combo_id |-> <<"combo", now>>])
        \* one order per leg, in order: a response of None skips the leg, an
        \* exception ends the loop (execute catches it)
        after[k \in 0..Len(opportunity.markets)] ==
            IF k = 0 THEN [st |-> st, raised |-> FALSE]
            ELSE LET before == after[k - 1]
                     ordered == Did(before.st, "create_market_order")
                 IN  IF before.raised THEN before
                     ELSE IF responses[k] = "raise"
                       THEN [st |-> ordered, raised |-> TRUE]
                     ELSE IF responses[k] = "order"
                       THEN [st |-> add_position(ordered, LegPosition(opportunity.markets[k])),
                             raised |-> FALSE]
                     ELSE [st |-> ordered, raised |-> FALSE]
    IN  after[Len(opportunity.markets)].st

ComboExecute(st, opportunity, responses) ==
    IF opportunity.edge_type = "underpriced"
    THEN execute_buy_all(Did(st, "execute"), opportunity, responses)
    ELSE Did(st, "execute")

\* all_resolved staying set over a leg that has no quote
AllResolvedAfter_SkipsUnquoted(all_resolved, current_price) ==
    /\ all_resolved
    /\ \/ current_price = None
       \/ current_price[1] < 10
       \/ current_price[1] > 990

\* monitor_positions: all_resolved after a leg whose midpoint is current_price
AllResolvedAfter(all_resolved, current_price) ==
    /\ all_resolved
    /\ current_price # None
    /\ \/ current_price[1] < 10
       \/ current_price[1] > 990

ComboMonitor(st, mid) ==
    LET ComboOf(i) == Get(st.positions[i].metadata, "combo_id")
        \* get_open_positions(), those that carry a combo_id
        open == { i \in DOMAIN st.positions :
                    st.positions[i].status = OPEN /\ ComboOf(i) # None }
        \* combos: a dict, so the combos come in the order of their first leg
        firsts == { i \in open : \A j \in open : ComboOf(j) = ComboOf(i) => j >= i }
        VisitCombo(acc, first) ==
            LET legs[i \in 0..Len(st.positions)] ==
                    IF i = 0 THEN [st |-> acc, all_resolved |-> TRUE]
                    ELSE IF i \notin open \/ ComboOf(i) # ComboOf(first)
                    THEN legs[i - 1]
                    ELSE LET current_price == mid[st.positions[i].token_id]
                             before == legs[i - 1]
                         IN  [st |-> IF /\ current_price # None
                                        /\ \/ current_price[1] < 10
                                           \/ current_price[1] > 990
                                     THEN close_position(before.st, i, current_price[1])
                                     ELSE before.st,
                              all_resolved |->
                                  AllResolvedAfter(before.all_resolved, current_price)]
                done == legs[Len(st.positions)]
            IN  IF done.all_resolved
                THEN [done.st EXCEPT !.reported = Append(@, ComboOf(first)[1])]
                ELSE done.st
        after[i \in 0..Len(st.positions)] ==
            IF i = 0 THEN st
            ELSE IF i \in firsts THEN VisitCombo(after[i - 1], i)
            ELSE after[i - 1]
    IN  after[Len(st.positions)]

\* ---- MarketMakingStrategy
MMTokens == {"M"}
MMOpportunities == { [token_id |-> "M", midpoint |-> 400] }

MMExecute(st, opportunity, responses) ==
    LET our_bid == (opportunity.midpoint * 99) \div 100
        position_size == 50000
        bid_amount == Quot(position_size, our_bid)
        bid == Did(Did(st, "execute"), "create_limit_order")
        ask == Did(bid, "create_limit_order")
    IN  IF responses[1] = "raise" THEN bid
        ELSE IF responses[2] = "raise" THEN ask
        ELSE IF responses[1] = "order"
        THEN add_position(ask,
                Position(<<"mm_bid", now>>, opportunity.token_id, our_bid,
                         bid_amount, "BUY", "MarketMaking", now,
                         [type |-> "market_making", side |-> "bid"]))
        ELSE ask

MMMonitor(st, mid) ==
    LET Visit(acc, i) ==
            LET p == acc.positions[i]
                current_price == mid[p.token_id]
            IN  IF current_price = None THEN acc
                ELSE IF p.side = "BUY" /\ current_price[1] * 100 < p.entry_price * 95
                THEN close_position(acc, i, current_price[1])
                ELSE acc
        \* for position in open_positions: the positions not yet visited
        \* keep their status, so the snapshot is the list itself
        after[i \in 0..Len(st.positions)] ==
            IF i = 0 THEN st
            ELSE IF st.positions[i].status = OPEN THEN Visit(after[i - 1], i)
            ELSE after[i - 1]
    IN  after[Len(st.positions)]

\* ---- the run() coroutine of each strategy
TokensOf(s) ==
    CASE s = "LatencyArbitrage" -> LatencyTokens
      [] s = "BinaryHedging" -> BinaryTokens
      [] s = "CombinatorialArbitrage" -> ComboTokens
      [] s = "MarketMaking" -> MMTokens

\* what analyze() can return besides None
OpportunitiesOf(s) ==
    CASE s = "LatencyArbitrage" -> LatencyOpportunities
      [] s = "BinaryHedging" -> BinaryOpportunities
      [] s = "CombinatorialArbitrage" -> ComboOpportunities
      [] s = "MarketMaking" -> MMOpportunities

execute(s, st, opportunity, responses) ==
    CASE s = "LatencyArbitrage" -> LatencyExecute(st, opportunity, responses)
      [] s = "BinaryHedging" -> BinaryExecute(st, opportunity, responses)
      [] s = "CombinatorialArbitrage" -> ComboExecute(st, opportunity, responses)
      [] s = "MarketMaking" -> MMExecute(st, opportunity, responses)

monitor_positions(s, st, mid, exit_response) ==
    CASE s = "LatencyArbitrage" -> LatencyMonitor(st, mid, exit_response)
      [] s = "BinaryHedging" -> BinaryMonitor(st, mid, exit_response)
      [] s = "CombinatorialArbitrage" -> ComboMonitor(st, mid)
      [] s = "MarketMaking" -> MMMonitor(st, mid)

\* the tokens an opportunity is about
TokensIn(opportunity) ==
    IF "tokens" \in DOMAIN opportunity
    THEN { opportunity.tokens[i].token_id : i \in DOMAIN opportunity.tokens }
    ELSE IF "markets" \in DOMAIN opportunity
    THEN { opportunity.markets[i].token_id : i \in DOMAIN opportunity.markets }
    ELSE { opportunity.token_id }

\* the responses to the orders execute submits for an opportunity: one per
\* order, two orders for a two-leg purchase and for a bid and an ask
ResponsesOf(s, opportunity) ==
    IF s = "LatencyArbitrage" \/ "avg_price" \in DOMAIN opportunity
    THEN { <<r>> : r \in OrderResponses }
    ELSE IF "edge_type" \in DOMAIN opportunity /\ opportunity.edge_type # "underpriced"
    THEN { <<>> }
    ELSE OrderResponses \X OrderResponses

\* the responses to the exit orders monitor_positions submits, where it
\* submits any (an exception is caught position by position and leaves the
\* position as a response of None does)
ExitResponsesOf(s) ==
    IF s \in {"LatencyArbitrage", "BinaryHedging"} THEN {"order", "none"}
    ELSE {"order"}

\* get_midpoint is asked about the tokens of open positions only: those
\* open before the pass and those the pass may open
QuotesAsked(s, opportunity, mid) ==
    \A t \in TokensOf(s) :
        mid[t] # None =>
            \/ opportunity # None /\ t \in TokensIn(opportunity[1])
            \/ \E i \in DOMAIN positions[s] :
                  positions[s][i].status = OPEN /\ positions[s][i].token_id = t

\* BinaryHedgingStrategy.analyze returns None at its own position limit
AnalyzeCanReturn(s, opportunity) ==
    (s = "BinaryHedging" /\ opportunity # None)
        => Len(get_open_positions(positions[s])) < BinaryMaxPositions

\* run(): await self.initialize(); await self.start()
run_start(s) ==
    /\ pc[s] = "created"
    /\ running' = [running EXCEPT ![s] = TRUE]
    /\ pc' = [pc EXCEPT ![s] = "looping"]
    /\ UNCHANGED <<positions, performance, testing_mode, simVars, riskVars,
                   bot, last_call>>

\* run(): one pass of the loop body, from the test of self.running to the
\* sleep; the client is synchronous, so no other coroutine runs in between
run_iteration(s, opportunity, responses, mid, exit_response) ==
    /\ pc[s] = "looping"
    /\ running[s]
    /\ AnalyzeCanReturn(s, opportunity)
    /\ LET executed == IF opportunity = None THEN PassStart(s)
                       ELSE execute(s, PassStart(s), opportunity[1], responses)
           done == monitor_positions(s, executed, mid, exit_response)
       IN  /\ positions' = [positions EXCEPT ![s] = done.positions]
           /\ performance' = [performance EXCEPT ![s] = done.performance]
           /\ last_call' = [op |-> "iteration", seq |-> 1 - last_call.seq,
                            strategy |-> s,
                            acted |-> opportunity # None, calls |-> done.calls,
                            reported |-> done.reported]
    /\ UNCHANGED <<running, testing_mode, pc, simVars, riskVars, bot>>

\* the except branch letting the exception end run()
AfterFailure_Escapes(s) == "stopped"

\* run(): where the except branch of the loop leaves the coroutine: it has
\* slept and is back at the test of self.running
AfterFailure(s) == "looping"

\* run(): a pass that ends in the loop's except branch.  execute and
\* monitor_positions catch what the client raises themselves; what reaches
\* the loop is raised by analyze, before the pass has changed anything.  The
\* branch logs the error and sleeps, and the loop goes on.
run_iteration_failed(s) ==
    /\ pc[s] = "looping"
    /\ running[s]
    /\ last_call' = [op |-> "iteration", seq |-> 1 - last_call.seq,
                     strategy |-> s, acted |-> FALSE,
                     calls |-> Did(PassStart(s), "logger.error").calls,
                     reported |-> <<>>]
    /\ pc' = [pc EXCEPT ![s] = AfterFailure(s)]
    /\ UNCHANGED <<positions, performance, running, testing_mode, simVars,
                   riskVars, bot>>

\* run(): the loop ends once self.running is false
run_exit(s) ==
    /\ pc[s] = "looping"
    /\ ~running[s]
    /\ pc' = [pc EXCEPT ![s] = "stopped"]
    /\ UNCHANGED <<positions, performance, running, testing_mode, simVars,
                   riskVars, bot, last_call>>

\* BaseStrategy.stop; the call is recorded as the last one made
stop(s) ==
    /\ running' = [running EXCEPT ![s] = FALSE]
    /\ last_call' = [op |-> "stop", seq |-> 0, strategy |-> s, acted |-> FALSE,
                     calls |-> <<>>, reported |-> <<>>]
    /\ UNCHANGED <<positions, performance, testing_mode, pc, simVars, riskVars,
                   bot>>

\* asyncio.sleep between passes: the sleeps that add up to a quarter of an hour
SleepSteps == {900}
SleepsMade == now \div 900
Sleep(d) ==
    /\ SleepsMade < MaxSleeps
    /\ now' = now + d
    /\ UNCHANGED <<riskConfig, riskState, simVars, stratVars, bot, last_call>>

\* the positions of all strategies, open or closed
TotalHeld ==
    Len(positions["LatencyArbitrage"]) + Len(positions["BinaryHedging"])
        + Len(positions["CombinatorialArbitrage"]) + Len(positions["MarketMaking"])

\* config.get_enabled_strategies(): each strategy alone, and side by side the
\* two strategies whose constructors take the orchestrator's trade_simulator
EnabledSets == { {s} : s \in Strategies } \cup { SimStrategies }

StratSpecInit ==
    /\ RiskManagerCreated(200000, 2)
    /\ SimInit
    /\ \E enabled \in EnabledSets, with_simulator \in BOOLEAN :
          StrategiesCreated(enabled, with_simulator)
    /\ bot = NoBot
    /\ last_call = NoCall

StratNext ==
    \/ \E s \in Strategies : run_start(s)
    \/ \E s \in Strategies :
          \E mid \in [TokensOf(s) -> Midpoints], x \in ExitResponsesOf(s) :
             /\ QuotesAsked(s, None, mid)
             /\ run_iteration(s, None, <<>>, mid, x)
    \/ \E s \in Strategies :
          \E o \in OpportunitiesOf(s), mid \in [TokensOf(s) -> Midpoints],
             x \in ExitResponsesOf(s) :
             /\ TotalHeld < MaxOpened
             /\ QuotesAsked(s, Some(o), mid)
             /\ \E r \in ResponsesOf(s, o) : run_iteration(s, Some(o), r, mid, x)
    \/ \E s \in Strategies : run_iteration_failed(s)
    \/ \E s \in Strategies : run_exit(s)
    \/ \E s \in Strategies : stop(s)
    \/ \E d \in SleepSteps : Sleep(d)

StratSpec == StratSpecInit /\ [][StratNext]_vars

(***************************************************************************)
(* One strategy's loop on its own, scheduled fairly (LoopSpec): asyncio    *)
(* resumes a coroutine whose sleep has elapsed, so a loop that is at its   *)
(* test of self.running eventually makes its next pass.                    *)
(***************************************************************************)
MaxLoopOpened == 1      \* positions held when a pass opens another

\* a pass of a strategy's loop has just been made
PassMade == last_call.op = "iteration"

\* a pass of the loop of s, whatever analyze and the client come back with
PassOf(s) ==
    \/ \E mid \in [TokensOf(s) -> Midpoints], x \in ExitResponsesOf(s) :
          /\ QuotesAsked(s, None, mid)
          /\ run_iteration(s, None, <<>>, mid, x)
    \/ \E o \in OpportunitiesOf(s), mid \in [TokensOf(s) -> Midpoints],
          x \in ExitResponsesOf(s) :
          /\ TotalHeld < MaxLoopOpened
          /\ QuotesAsked(s, Some(o), mid)
          /\ \E r \in ResponsesOf(s, o) : run_iteration(s, Some(o), r, mid, x)
    \/ run_iteration_failed(s)

LoopSpecInit ==
    /\ RiskManagerCreated(200000, 2)
    /\ SimInit
    /\ \E s \in Strategies : StrategiesCreated({s}, FALSE)
    /\ bot = NoBot
    /\ last_call = NoCall

LoopNext ==
    \/ \E s \in Strategies : run_start(s)
    \/ \E s \in Strategies : PassOf(s)
    \/ \E s \in Strategies : run_exit(s)
    \/ \E s \in Strategies : stop(s)

LoopSpec ==
    /\ LoopSpecInit /\ [][LoopNext]_vars
    /\ \A s \in Strategies : WF_vars(PassOf(s))

\* C20: no pass ends the loop of a running strategy, a failing one
\* included: after it the coroutine is back at the test of self.running with
\* the flag as it was; and a strategy that stays running (stop is never
\* signalled) makes passes again and again.
C20_LoopSurvivesFailures ==
    /\ [][(last_call' # last_call /\ last_call'.op = "iteration")
            => /\ pc'[last_call'.strategy] = "looping"
               /\ running'[last_call'.strategy]]_vars
    /\ \A s \in Strategies :
          <>[](running[s] /\ pc[s] = "looping") => []<><<PassOf(s)>>_vars

\* C20 witness: a pass has just failed, after the strategy had opened a
\* position in an earlier pass, and the loop is still on
C20_Witness ==
    /\ PassMade
    /\ last_call.calls = <<"logger.error">>
    /\ running[last_call.strategy] /\ pc[last_call.strategy] = "looping"
    /\ positions[last_call.strategy] # <<>>

(***************************************************************************)
(* Claims about the strategy loops (StratSpec)                             *)
(***************************************************************************)
\* how many of the calls of the last pass are among the named ones
CallsTo(names) ==
    Cardinality({ i \in DOMAIN last_call.calls : last_call.calls[i] \in names })
OrderCalls == {"create_market_order", "create_limit_order"}
\* the simulated trades logged for a strategy
TradesLoggedFor(s) ==
    SelectSeq(simulated_trades, LAMBDA t : t.strategy = s)

\* C3: in testing mode (the strategy was given a trade simulator) no pass of
\* a strategy's loop submits an order: its execute and monitor_positions make
\* zero create_market_order and create_limit_order calls.
C3_NoOrdersInTestingMode ==
    (PassMade /\ testing_mode[last_call.strategy]) => CallsTo(OrderCalls) = 0

\* C4: in testing mode a pass that takes an opportunity (execute opens a
\* position for it) logs exactly one simulated trade through log_trade, so
\* that the simulator then holds a trade of that strategy.
C4_OneSimulatedTradePerOpportunity ==
    (PassMade /\ testing_mode[last_call.strategy] /\ last_call.acted
              /\ CallsTo({"add_position"}) > 0)
        => /\ CallsTo({"log_trade"}) = 1
           /\ TradesLoggedFor(last_call.strategy) # <<>>

\* C5: every Position added to a strategy's list follows, within the pass
\* that adds it, a can_open_position call of the risk manager.
C5_PositionsAdmittedFirst ==
    PassMade =>
        \A i \in DOMAIN last_call.calls :
            last_call.calls[i] = "add_position"
                => \E j \in 1..(i - 1) : last_call.calls[j] = "can_open_position"

\* the OPEN positions of all strategies: their number and their cost basis
OpenCount ==
    Len(get_open_positions(positions["LatencyArbitrage"]))
        + Len(get_open_positions(positions["BinaryHedging"]))
        + Len(get_open_positions(positions["CombinatorialArbitrage"]))
        + Len(get_open_positions(positions["MarketMaking"]))
OpenCostBasis ==
    ExposureOf(get_open_positions(positions["LatencyArbitrage"]))
        + ExposureOf(get_open_positions(positions["BinaryHedging"]))
        + ExposureOf(get_open_positions(positions["CombinatorialArbitrage"]))
        + ExposureOf(get_open_positions(positions["MarketMaking"]))

\* C6: in every reachable state, whatever the interleaving of the strategy
\* loops, the cost basis of all OPEN positions is at most
\* max_total_exposure_usd and their number is at most max_positions.
C6_AccountLimitsHold ==
    /\ OpenCostBasis <= max_total_exposure_usd
    /\ OpenCount <= max_positions

\* a pass of the loop of s in which analyze returns opportunity and the
\* orders execute submits for it come back as responses
Executes(s, opportunity, responses) ==
    \E mid \in [TokensOf(s) -> Midpoints], x \in ExitResponsesOf(s) :
       /\ QuotesAsked(s, Some(opportunity), mid)
       /\ run_iteration(s, Some(opportunity), responses, mid, x)

\* the opportunities execute buys several legs for, and their legs
MultiLegOpportunities ==
    { o \in BinaryOpportunities : "tokens" \in DOMAIN o }
        \cup { o \in ComboOpportunities : o.edge_type = "underpriced" }
LegsOf(opportunity) ==
    IF "tokens" \in DOMAIN opportunity THEN opportunity.tokens
    ELSE opportunity.markets
\* the positions of all strategies, in one list
AllPositions ==
    positions["LatencyArbitrage"] \o positions["BinaryHedging"]
        \o positions["CombinatorialArbitrage"] \o positions["MarketMaking"]
ComboIdOf(p) == Get(p.metadata, "combo_id")

\* C25: an execute call for a multi-leg opportunity (the binary
\* sum-arbitrage, the combinatorial buy-all) whose orders all succeed creates
\* one Position per leg, all with the same combo identifier in their
\* metadata, which no Position created by another execute call carries.
C25_LegsShareAFreshComboId ==
    [][\A s \in {"BinaryHedging", "CombinatorialArbitrage"},
          o \in MultiLegOpportunities :
          (/\ o \in OpportunitiesOf(s)
           /\ Executes(s, o, [k \in DOMAIN LegsOf(o) |-> "order"]))
             => LET created == SubSeq(positions'[s], Len(positions[s]) + 1,
                                      Len(positions'[s]))
                IN  /\ Len(created) = Len(LegsOf(o))
                    /\ \E c \in { ComboIdOf(created[1]) } :
                          /\ c # None
                          /\ \A k \in DOMAIN created : ComboIdOf(created[k]) = c
                          /\ \A i \in DOMAIN AllPositions :
                                ComboIdOf(AllPositions[i]) # c]_vars

\* C26: an execute call one of whose orders fails (the client returns None
\* or raises) adds no Position, also where an earlier leg's order succeeded.
C26_FailedExecuteAddsNothing ==
    [][\A s \in Strategies :
          \A o \in OpportunitiesOf(s) :
             \A r \in ResponsesOf(s, o) :
                (/\ Executes(s, o, r)
                 /\ \E k \in DOMAIN r : r[k] # "order")
                   => Len(positions'[s]) = Len(positions[s])]_vars

C28_SettledPositionsAreClosed ==
    [][\A s \in Strategies :
          \A mid \in [TokensOf(s) -> Midpoints] :
             (/\ QuotesAsked(s, None, mid)
              /\ run_iteration(s, None, <<>>, mid, "order"))
                => \A i \in DOMAIN positions[s] :
                      LET p == positions[s][i]
                          current_price == mid[p.token_id]
                      IN  (/\ p.status = OPEN
                           /\ current_price # None
                           /\ \/ current_price[1] >= 990
                              \/ current_price[1] <= 10)
                             => positions'[s][i].status = CLOSED]_vars

\* C29: no two positions, of the same strategy or of different ones, of one
\* execute call or of several, have the same position_id.
C29_PositionIdsAreUnique ==
    \A i, j \in DOMAIN AllPositions :
        i # j => AllPositions[i].position_id # AllPositions[j].position_id

\* C30: in every reachable state the risk manager's total_exposure (the
\* figure get_risk_metrics and the status output report) equals the sum of
\* the cost basis of all OPEN positions.
C30_TotalExposureIsOpenCostBasis ==
    total_exposure = OpenCostBasis

(***************************************************************************)
(* PolymarketBot and run_bot (BotSpec): the orchestrator from its          *)
(* construction to the end of asyncio.run(run_bot()).  initialize, start   *)
(* and stop contain no await that suspends before they end (the client is  *)
(* synchronous, the price feed has no connection to close), so each is one *)
(* step and no task created by start runs before run_bot has ended.        *)
(***************************************************************************)
\* the attributes PolymarketBot.__init__ assigns; reading any other
\* attribute of the bot raises AttributeError
BotAttributes == {"config", "running", "strategies", "polymarket_client",
                  "price_feed", "risk_manager", "trade_simulator",
                  "starting_balance", "current_balance"}

\* the order in which get_enabled_strategies lists the strategies
DeclaredOrder == <<"LatencyArbitrage", "BinaryHedging",
                   "CombinatorialArbitrage", "MarketMaking">>
IndexOf(s) == CHOOSE i \in DOMAIN DeclaredOrder : DeclaredOrder[i] = s

\* sorted(enabled, key=priority): ascending, equal priorities in listed order
get_enabled_strategies(config) ==
    LET Key(s) == config.priority[s] * 10 + IndexOf(s)
        Before(s) == { u \in config.enabled : Key(u) < Key(s) }
    IN  [k \in 1..Cardinality(config.enabled) |->
            CHOOSE s \in config.enabled : Cardinality(Before(s)) = k - 1]

\* the constructors that have a trade_simulator parameter: a call passing
\* trade_simulator= to any other raises TypeError
TakesTradeSimulator(s) == s \in SimStrategies

\* _initialize_strategies: the strategies appended, in the order visited
InitializedStrategies(config, price_feed) ==
    LET Appended(s) ==
            /\ s = "LatencyArbitrage" => price_feed
            /\ TakesTradeSimulator(s)
    IN  SelectSeq(get_enabled_strategies(config), Appended)

\* run_bot always going on to start()
AfterInitialize_StartsAnyway(raised) == "start"

\* run_bot: try: initialize(); start()  finally: stop()
AfterInitialize(raised) == IF raised = None THEN "start" ELSE "stop"

NoneRaised == [initialize |-> None, start |-> None, stop |-> None]

\* PolymarketBot(config_path), about to be initialized by run_bot
PolymarketBotCreated(config) ==
    bot = [config |-> config, running |-> FALSE, strategies |-> <<>>,
           polymarket_client |-> FALSE, price_feed |-> FALSE,
           risk_manager |-> FALSE, trade_simulator |-> FALSE,
           starting_balance |-> 0, current_balance |-> 0,
           at |-> "initialize", raised |-> NoneRaised,
           tasks |-> {}, files |-> {}]

\* initialize() ending with an exception
InitializeRaises(exception, client_created) ==
    /\ bot' = [bot EXCEPT !.polymarket_client = client_created,
                          !.raised.initialize = Some(exception),
                          !.at = AfterInitialize(Some(exception))]
    /\ UNCHANGED <<pc, testing_mode>>

\* PolymarketBot.initialize; connected is the answer of is_connected(),
\* balance that of get_balance()
PolymarketBot_initialize(connected, balance) ==
    /\ bot.at = "initialize"
    /\ IF ~bot.config.polymarket_private_key
         THEN InitializeRaises("ValueError", FALSE)
       ELSE IF ~connected
         THEN InitializeRaises("ConnectionError", TRUE)
       ELSE
         LET starting == IF balance = None THEN 0 ELSE balance[1]
             wanted == "LatencyArbitrage" \in bot.config.enabled
             price_feed == wanted /\ bot.config.binance_credentials
             config == IF wanted /\ ~bot.config.binance_credentials
                       THEN [bot.config EXCEPT !.enabled = @ \ {"LatencyArbitrage"}]
                       ELSE bot.config
             strategies == InitializedStrategies(config, price_feed)
             created == { strategies[i] : i \in DOMAIN strategies }
         IN  /\ bot' = [bot EXCEPT !.polymarket_client = TRUE,
                                   !.starting_balance = starting,
                                   !.current_balance = starting,
                                   !.risk_manager = TRUE,
                                   !.trade_simulator = config.testing_mode,
                                   !.price_feed = price_feed,
                                   !.config = config,
                                   !.strategies = strategies,
                                   !.at = AfterInitialize(None)]
             /\ pc' = [s \in Strategies |->
                          IF s \in created THEN "created" ELSE pc[s]]
             /\ testing_mode' = [s \in Strategies |->
                          IF s \in created THEN config.testing_mode
                          ELSE testing_mode[s]]
    /\ UNCHANGED <<positions, performance, running, simVars, riskVars, last_call>>

\* PolymarketBot.start: the tasks it creates before it waits or raises
PolymarketBot_start ==
    /\ bot.at = "start"
    /\ LET loops == { bot.strategies[i] : i \in DOMAIN bot.strategies }
                        \cup {"monitor"}
           feeds == IF bot.price_feed THEN {"price_feed"} ELSE {}
       IN  IF "testing_mode" \notin BotAttributes
           THEN bot' = [bot EXCEPT !.running = TRUE,
                                   !.tasks = loops \cup feeds,
                                   !.raised.start = Some("AttributeError"),
                                   !.at = "stop"]
           ELSE bot' = [bot EXCEPT !.running = TRUE,
                                   !.tasks = loops \cup feeds \cup
                                       (IF bot.config.testing_mode /\ bot.trade_simulator
                                        THEN {"resolution"} ELSE {}),
                                   !.at = "gather"]
    /\ UNCHANGED <<stratVars, simVars, riskVars, last_call>>

\* PolymarketBot.stop: strategy.stop() for each strategy, price_feed.stop(),
\* then the final report and the export of the trades
PolymarketBot_stop ==
    /\ bot.at = "stop"
    /\ running' = [s \in Strategies |->
                      IF \E i \in DOMAIN bot.strategies : bot.strategies[i] = s
                      THEN FALSE ELSE running[s]]
    /\ IF "testing_mode" \notin BotAttributes
       THEN bot' = [bot EXCEPT !.running = FALSE,
                               !.raised.stop = Some("AttributeError"),
                               !.at = "ended"]
       ELSE bot' = [bot EXCEPT !.running = FALSE,
                               !.files = IF bot.config.testing_mode /\ bot.trade_simulator
                                         THEN @ \cup {"final_report", "csv"} ELSE @,
                               !.at = "ended"]
    /\ UNCHANGED <<positions, performance, testing_mode, pc, simVars, riskVars,
                   last_call>>

\* asyncio.run(run_bot()) ending: the tasks still pending are cancelled, and
\* a task cancelled before its first step never runs
asyncio_run_ends ==
    /\ bot.at = "ended"
    /\ bot' = [bot EXCEPT !.at = "exited"]
    /\ pc' = [s \in Strategies |-> IF s \in bot.tasks THEN "cancelled" ELSE pc[s]]
    /\ UNCHANGED <<positions, performance, running, testing_mode, simVars,
                   riskVars, last_call>>

\* the configurations: the environment and the strategies section of the file
DefaultPriority == [s \in Strategies |-> 1]
ReversedPriority == [s \in Strategies |-> 5 - IndexOf(s)]
Configs ==
    [polymarket_private_key : BOOLEAN, binance_credentials : BOOLEAN,
     testing_mode : BOOLEAN, enabled : SUBSET Strategies,
     priority : {DefaultPriority, ReversedPriority}]
BalanceReads == {None, Some(1000000)}

BotSpecInit ==
    /\ \E config \in Configs : PolymarketBotCreated(config)
    /\ RiskDefaults /\ SimInit /\ StrategiesCreated({}, FALSE)
    /\ last_call = NoCall

BotNext ==
    \/ \E connected \in BOOLEAN, balance \in BalanceReads :
          PolymarketBot_initialize(connected, balance)
    \/ PolymarketBot_start
    \/ PolymarketBot_stop
    \/ asyncio_run_ends

BotSpec == BotSpecInit /\ [][BotNext]_vars

(***************************************************************************)
(* Claims about the orchestrator (BotSpec)                                 *)
(***************************************************************************)
InitializeEnded == bot.at # "initialize"
InitializeSucceeded == InitializeEnded /\ bot.raised.initialize = None
StartEnded == InitializeSucceeded /\ bot.at \in {"stop", "ended", "exited"}
\* stop has ended, and asyncio.run has not yet cancelled what stop left
StopEnded == bot.at = "ended"
\* the strategies whose run() start created a task for
StrategyTasks == bot.tasks \cap Strategies

\* C15: once stop has ended, the run loop of every strategy that start
\* launched has exited: none is waiting to run or between two iterations.
C15_StopAwaitsStrategyLoops ==
    StopEnded => \A s \in StrategyTasks : pc[s] = "stopped"

\* C16: in testing mode, stop ends without raising, having saved the final
\* report and exported the simulated trades.
C16_StopSavesReportAndExport ==
    (StopEnded /\ bot.config.testing_mode /\ InitializeSucceeded)
        => /\ bot.raised.stop = None
           /\ {"final_report", "csv"} \subseteq bot.files

\* C17: start launches one loop per initialized strategy and one monitor
\* loop, launches the resolution loop iff testing mode is enabled, and then
\* waits on them instead of failing.
C17_StartLaunchesAllLoops ==
    StartEnded =>
        /\ StrategyTasks = { bot.strategies[i] : i \in DOMAIN bot.strategies }
        /\ "monitor" \in bot.tasks
        /\ "resolution" \in bot.tasks <=> bot.config.testing_mode
        /\ bot.raised.start = None

\* the strategies initialize is to construct: the enabled ones, latency
\* arbitrage only with a price feed, in ascending priority
IsToBeActive(s) == s = "LatencyArbitrage" => bot.price_feed
ExpectedStrategies == SelectSeq(get_enabled_strategies(bot.config), IsToBeActive)

\* C18: after initialize succeeds the strategy list holds exactly one
\* instance of each enabled strategy (latency arbitrage when a price feed
\* exists), in ascending priority order, in testing mode and outside it.
C18_AllEnabledStrategiesActive ==
    InitializeSucceeded => bot.strategies = ExpectedStrategies

\* C19: when initialize raises, no strategy loop, monitor loop or resolution
\* loop is ever started, no strategy instance ever runs, and no order is
\* submitted, up to and including the end of the run.
C19_FailedInitializeStartsNothing ==
    (InitializeEnded /\ bot.raised.initialize # None) =>
        /\ bot.tasks = {}
        /\ bot.at # "start" /\ bot.raised.start = None
        /\ \A s \in Strategies : pc[s] = "disabled" /\ ~running[s]
        /\ last_call = NoCall

\* C19 witness: the connectivity check failed, and the run has ended
C19_Witness ==
    /\ bot.at = "exited"
    /\ bot.raised.initialize = Some("ConnectionError")
    /\ bot.polymarket_client /\ ~bot.risk_manager
    /\ bot.config.enabled = Strategies
    /\ bot.tasks = {}

(***************************************************************************)
(* The orchestrator's monitoring loops, each as the coroutine start()      *)
(* hands to asyncio, a pass going from its sleep to the end of the loop    *)
(* body, with the bot initialized and running: _monitor_loop (MonitorSpec) *)
(* and _monitor_simulated_trades (ResolutionSpec), the latter next to the  *)
(* callers that write to the simulator.                                    *)
(***************************************************************************)
MaxMonitorPasses == 4   \* passes of _monitor_loop
MonitorInterval == 60   \* asyncio.sleep(60)

\* get_balance() or 0.0
BalanceOrZero(read) == IF read = None THEN 0 ELSE read[1]

\* _monitor_loop: one pass of the loop body; read is what get_balance returns
monitor_loop(read) ==
    /\ bot.running
    /\ now < MaxMonitorPasses * MonitorInterval
    /\ now' = now + MonitorInterval
    /\ LET current_balance == BalanceOrZero(read)
       IN  /\ bot' = [bot EXCEPT !.current_balance = current_balance]
           /\ emergency_stop_triggered' =
                 StopFlagAfter(current_balance, bot.starting_balance)
    /\ last_call' = [op |-> "monitor_loop", seq |-> 0, trade |-> 0]
    /\ UNCHANGED <<riskConfig, daily_pnl, total_exposure, simVars, stratVars>>

\* _monitor_loop: a pass in which get_balance raises (anything the client
\* does not catch): the except branch logs, sleeps, and the loop goes on
monitor_loop_failed ==
    /\ bot.running
    /\ now < MaxMonitorPasses * MonitorInterval
    /\ now' = now + 2 * MonitorInterval
    /\ last_call' = [op |-> "monitor_loop_failed", seq |-> 0, trade |-> 0]
    /\ UNCHANGED <<riskConfig, riskState, simVars, stratVars, bot>>

\* what get_midpoint(trade.token_id) comes back with: an exception, or None
\* or a price returned
TradeMidpoints == {None, Some(10), Some(400), Some(990)}
Lookups == { [raised |-> TRUE] }
              \cup { [raised |-> FALSE, value |-> m] : m \in TradeMidpoints }

\* the thresholds read strictly
ResolutionAt_Strict(current_price) ==
    IF current_price = None THEN None
    ELSE IF current_price[1] > 990 THEN Some(<<"YES", 1000>>)
    ELSE IF current_price[1] < 10 THEN Some(<<"NO", 0>>)
    ELSE None

\* _monitor_simulated_trades: the outcome and final price a trade is resolved
\* with at a midpoint, None where it is left alone
ResolutionAt(current_price) ==
    IF current_price = None THEN None
    ELSE IF current_price[1] >= 990 THEN Some(<<"YES", 1000>>)
    ELSE IF current_price[1] <= 10 THEN Some(<<"NO", 0>>)
    ELSE None

\* the simulator's lists and counters as one value
SimState ==
    [simulated_trades |-> simulated_trades, resolved_trades |-> resolved_trades,
     winning_trades |-> winning_trades, losing_trades |-> losing_trades,
     total_pnl |-> total_pnl, session_file |-> session_file]

\* resolve_trade on the i-th trade, as a value
Resolved(sim, i, actual_outcome, final_price) ==
    LET trade == ResolvedTrade(sim.simulated_trades[i], actual_outcome, final_price)
    IN  [sim EXCEPT !.simulated_trades[i] = trade,
                    !.resolved_trades = @ + 1,
                    !.total_pnl = @ + trade.net_pnl,
                    !.winning_trades = IF trade.net_pnl > 0 THEN @ + 1 ELSE @,
                    !.losing_trades = IF trade.net_pnl > 0 THEN @ ELSE @ + 1,
                    !.session_file = WriteTradeToFile(@, trade)]

\* the trades a pass asks get_midpoint about
Watched ==
    { i \in DOMAIN simulated_trades :
         simulated_trades[i].status \in {PENDING, MONITORING} }

\* pending + monitoring: the trades a pass visits, in order
TradesWith(status) ==
    SelectSeq([i \in DOMAIN simulated_trades |-> i],
              LAMBDA i : simulated_trades[i].status = status)
PendingThenMonitoring == TradesWith(PENDING) \o TradesWith(MONITORING)

\* for trade in pending + monitoring: the simulator after the trades of
\* visited, in order.  lookup[i] is what get_midpoint comes back with for the
\* i-th trade's token; an exception is logged by the inner except and the
\* loop goes on to the next trade.
ResolutionPass(sim, visited, lookup) ==
    LET after[k \in 0..Len(visited)] ==
            IF k = 0 THEN sim
            ELSE LET i == visited[k]
                     verdict == IF lookup[i].raised THEN None
                                ELSE ResolutionAt(lookup[i].value)
                 IN  IF verdict = None THEN after[k - 1]
                     ELSE Resolved(after[k - 1], i, verdict[1][1], verdict[1][2])
    IN  after[Len(visited)]

\* _monitor_simulated_trades: one pass of the loop body
monitor_simulated_trades(lookup) ==
    /\ bot.running
    /\ bot.trade_simulator
    /\ \E done \in { ResolutionPass(SimState, PendingThenMonitoring, lookup) } :
          /\ Len(done.session_file) <= MaxRecords
          /\ simulated_trades' = done.simulated_trades
          /\ resolved_trades' = done.resolved_trades
          /\ winning_trades' = done.winning_trades
          /\ losing_trades' = done.losing_trades
          /\ total_pnl' = done.total_pnl
          /\ session_file' = done.session_file
    /\ last_call' = [op |-> "monitor_simulated_trades", seq |-> 0, trade |-> 0,
                     lookup |-> lookup]
    /\ UNCHANGED <<total_trades, riskVars, stratVars, bot>>

\* the bot after initialize() and start() in testing mode, its loops running;
\* starting is the balance initialize() read (get_balance() or 0.0)
TestingConfig ==
    [polymarket_private_key |-> TRUE, binance_credentials |-> FALSE,
     testing_mode |-> TRUE, enabled |-> {}, priority |-> DefaultPriority]
BotRunning(starting) ==
    bot = [config |-> TestingConfig, running |-> TRUE, strategies |-> <<>>,
           polymarket_client |-> TRUE, price_feed |-> FALSE,
           risk_manager |-> TRUE, trade_simulator |-> TRUE,
           starting_balance |-> starting, current_balance |-> starting,
           at |-> "gather", raised |-> NoneRaised,
           tasks |-> {"monitor", "resolution"}, files |-> {}]

MonitorBalanceReads == {None, Some(0)} \cup { Some(b) : b \in Balances }
MonitorStartingBalances == {0, 900000, 1000000}

MonitorSpecInit ==
    /\ \E starting \in MonitorStartingBalances : BotRunning(starting)
    /\ RiskDefaults /\ SimInit /\ StrategiesCreated({}, TRUE)
    /\ last_call = NoCall

MonitorNext ==
    \/ \E read \in MonitorBalanceReads : monitor_loop(read)
    \/ monitor_loop_failed

MonitorSpec == MonitorSpecInit /\ [][MonitorNext]_vars

ResolutionSpecInit ==
    /\ BotRunning(1000000)
    /\ RiskDefaults /\ SimInit /\ StrategiesCreated({}, TRUE)
    /\ last_call = NoCall

\* the callers of the simulator log trades and record the exit of a trade
\* (update_trade_exit reads no status: it takes any trade)
ResolutionNext ==
    \/ log_trade("MarketMaking", "A", "BUY", 400, 250)
    \/ \E i \in DOMAIN simulated_trades :
          update_trade_exit(i, 800, "Take profit")
    \/ \E lookup \in [Watched -> Lookups] :
          monitor_simulated_trades(lookup)

ResolutionSpec == ResolutionSpecInit /\ [][ResolutionNext]_vars

\* C21: a pass of _monitor_loop in which get_balance returns no result
\* leaves the bot's current balance and the emergency-stop flag as they were.
C21_AbsentBalanceIsNoData ==
    [][monitor_loop(None)
          => /\ bot'.current_balance = bot.current_balance
             /\ emergency_stop_triggered' = emergency_stop_triggered]_vars

\* C22: a pass of the resolution loop leaves every trade as the midpoint of
\* its token says: a PENDING or MONITORING trade whose midpoint is at least
\* 0.99 is resolved "YES" at 1.0, one whose midpoint is at most 0.01 is
\* resolved "NO" at 0.0, and every other trade (midpoint in between, absent,
\* or its lookup raising; or a trade in another status) is unchanged,
\* whatever happened to the trades visited before it.
C22_ResolutionLoopSettlesTrades ==
    [][last_call'.op = "monitor_simulated_trades" =>
          \A i \in DOMAIN simulated_trades :
             LET trade == simulated_trades[i]
                 lookup == last_call'.lookup
                 quoted == /\ trade.status \in {PENDING, MONITORING}
                           /\ ~lookup[i].raised
                           /\ lookup[i].value # None
             IN  simulated_trades'[i] =
                    IF quoted /\ lookup[i].value[1] >= 990
                    THEN ResolvedTrade(trade, "YES", 1000)
                    ELSE IF quoted /\ lookup[i].value[1] <= 10
                    THEN ResolvedTrade(trade, "NO", 0)
                    ELSE trade]_vars

\* C22 witness: a pass has resolved one trade "NO" at 0.0 and left another,
\* which had exited before, in MONITORING
C22_Witness ==
    /\ last_call.op = "monitor_simulated_trades"
    /\ \E i, j \in DOMAIN simulated_trades :
          /\ simulated_trades[i].status = RESOLVED
          /\ simulated_trades[i].resolution_outcome = Some("NO")
          /\ simulated_trades[j].status = MONITORING

(***************************************************************************)
(* Claims about closed positions and the loops' bookkeeping                *)
(***************************************************************************)
\* the gain of a closed position over its entry, by its direction; the
\* strategies pass no exit fee and a Position carries no entry fee
GainOf(p) ==
    IF p.side = "BUY"
    THEN ((p.exit_price[1] - p.entry_price) * p.amount.num) \div p.amount.den
    ELSE ((p.entry_price - p.exit_price[1]) * p.amount.num) \div p.amount.den

\* C31: a position closed through close_position has realized_pnl equal to
\* (exit - entry) * quantity when bought, (entry - exit) * quantity when
\* sold, minus the fees (none are charged by the strategies); and once a
\* position is CLOSED no later step changes any of its fields, realized_pnl,
\* exit price and the inputs of its cost basis included.
C31_RealizedPnlIsSetOnceAtClose ==
    /\ [](\A s \in Strategies : \A i \in DOMAIN positions[s] :
            positions[s][i].status = CLOSED
                => /\ positions[s][i].exit_price # None
                   /\ positions[s][i].realized_pnl = GainOf(positions[s][i]))
    /\ [][\A s \in Strategies : \A i \in DOMAIN positions[s] :
            positions[s][i].status = CLOSED
                => /\ i \in DOMAIN positions'[s]
                   /\ positions'[s][i] = positions[s][i]]_vars

\* C31 witness: a pass has been made that closed nothing while its strategy
\* holds a position closed earlier, at a gain or loss that is not zero
C31_Witness ==
    /\ PassMade
    /\ CallsTo({"close_position"}) = 0
    /\ \E i \in DOMAIN positions[last_call.strategy] :
          /\ positions[last_call.strategy][i].status = CLOSED
          /\ positions[last_call.strategy][i].realized_pnl # 0

\* C32: record_pnl(p, s) leaves the ledger as the entries that are not older
\* than seven days, in their order, followed by the one new entry
\* (p, s, current time): it removes exactly the entries older than seven
\* days, never an entry dated today, and get_today_pnl right after the call
\* is get_today_pnl right before it plus p.
C32_RecordPnlAppendsAndPrunes ==
    [][last_call' # last_call /\ last_call'.op = "record_pnl"
        => LET kept == SelectSeq(daily_pnl,
                           LAMBDA record : now - record.timestamp <= SevenDays)
           IN  /\ daily_pnl' = Append(kept,
                      [pnl |-> last_call'.pnl, strategy |-> last_call'.strategy,
                       timestamp |-> now])
               /\ \A i \in DOMAIN daily_pnl :
                      IsToday(daily_pnl[i])
                          => \E j \in DOMAIN daily_pnl' : daily_pnl'[j] = daily_pnl[i]
               /\ get_today_pnl' = get_today_pnl + last_call'.pnl]_vars

\* C32 witness: record_pnl has just dropped an entry older than seven days:
\* the ledger holds only the new entry although the clock shows that an
\* earlier call was made more than seven days ago
C32_Witness ==
    /\ last_call.op = "record_pnl"
    /\ Len(daily_pnl) = 1
    /\ daily_pnl[1].timestamp = now
    /\ now > SevenDays

\* the drawdown (starting - current) / starting has reached the emergency
\* stop limit (rates in percent), for a starting balance above zero
DrawdownAtLimit(current, starting) ==
    (starting - current) * 100 >= emergency_stop_loss_pct * starting

\* C33: a call check_emergency_stop(current, starting) with starting > 0
\* sets the emergency-stop flag when the drawdown is at or above the limit,
\* the limit itself included, leaves the flag exactly as it was when the
\* drawdown is below the limit, and changes no other state of the risk
\* manager (configuration, ledger, total exposure).
C33_EmergencyStopSetsIffAtLimit ==
    [][(/\ last_call' # last_call
        /\ last_call'.op = "check_emergency_stop"
        /\ last_call'.starting_balance > 0)
        => /\ DrawdownAtLimit(last_call'.account_balance,
                              last_call'.starting_balance)
                  => emergency_stop_triggered'
           /\ ~DrawdownAtLimit(last_call'.account_balance,
                               last_call'.starting_balance)
                  => emergency_stop_triggered' = emergency_stop_triggered
           /\ UNCHANGED <<riskConfig, daily_pnl, total_exposure>>]_vars

\* C33 witness: a call whose drawdown is exactly the limit has just set the
\* flag, with an entry in the ledger
C33_Witness ==
    /\ last_call.op = "check_emergency_stop"
    /\ last_call.starting_balance > 0
    /\ (last_call.starting_balance - last_call.account_balance) * 100
          = emergency_stop_loss_pct * last_call.starting_balance
    /\ emergency_stop_triggered
    /\ daily_pnl # <<>>

\* C34: the resolution loop resolves each simulated trade once: a trade that
\* has been resolved (its resolution outcome is recorded) is not resolved
\* again by any later pass, however long its price stays at or beyond the
\* settlement boundary.
C34_ResolvedOnceByTheLoop ==
    [][last_call'.op = "monitor_simulated_trades" =>
          \A i \in DOMAIN simulated_trades :
             simulated_trades[i].resolution_outcome # None
                => simulated_trades'[i] = simulated_trades[i]]_vars

\* how many positions of a list are CLOSED
ClosedCount(held) == Len(SelectSeq(held, LAMBDA p : p.status = CLOSED))

\* C35: in every reachable state, for every strategy, performance.total_trades
\* is the number of CLOSED positions in its list: each close folds its
\* position into the performance once, and no monitor_positions pass hands
\* close_position a position that is already CLOSED (a second close would
\* add a trade without adding a CLOSED position).
C35_TotalTradesCountsClosedPositions ==
    \A s \in Strategies :
        performance[s].total_trades = ClosedCount(positions[s])

\* C35 witness: after a pass, the strategy holds a position it closed before
\* and one that is still OPEN, with one trade in its performance
C35_Witness ==
    /\ PassMade
    /\ performance[last_call.strategy].total_trades = 1
    /\ \E i, j \in DOMAIN positions[last_call.strategy] :
          /\ positions[last_call.strategy][i].status = CLOSED
          /\ positions[last_call.strategy][j].status = OPEN

\* C36: once stop has been called on a strategy, its running flag does not
\* become true again: as long as stop is the last call made (no pass has been
\* made since), the flag of the stopped strategy is false, also when stop
\* came before run had reached its start step.
C36_StoppedStaysStopped ==
    last_call.op = "stop" => ~running[last_call.strategy]

\* the realized PnL of the positions of a list that were closed today
RealizedToday(held) ==
    SumSeq([i \in DOMAIN held |->
               IF /\ held[i].status = CLOSED
                  /\ DateOf(held[i].exit_time[1]) = DateOf(now)
               THEN held[i].realized_pnl ELSE 0])

\* C37: the realized PnL of every position a strategy closes is in the risk
\* manager's ledger: in every reachable state get_today_pnl is the sum of
\* realized_pnl over the positions closed today, across all strategies.
C37_LedgerHoldsRealizedPnl ==
    get_today_pnl = RealizedToday(positions["LatencyArbitrage"])
                      + RealizedToday(positions["BinaryHedging"])
                      + RealizedToday(positions["CombinatorialArbitrage"])
                      + RealizedToday(positions["MarketMaking"])

\* C38: for every simulated trade and every price p, the preliminary gross
\* PnL update_trade_exit computes for an exit at p equals the final gross PnL
\* resolve_trade computes for a settlement at p, for BUY and SELL alike.
C38_ExitAndResolutionAgreeOnGrossPnl ==
    \A i \in DOMAIN simulated_trades :
        \A p \in ExitPrices \cup FinalPrices :
            ExitedTrade(simulated_trades[i], p, "Take profit").gross_pnl
                = ResolvedTrade(simulated_trades[i], "YES", p).gross_pnl

\* C39: in every reachable state the binary hedging strategy holds at most
\* max_positions OPEN positions, both legs of a sum-arbitrage trade counted.
C39_BinaryHoldsAtMostMaxPositions ==
    Len(get_open_positions(positions["BinaryHedging"])) <= BinaryMaxPositions

\* C40: after every pass of the monitor loop, if the balance the pass observed
\* is below the start-up balance by at least emergency_stop_loss_pct of it,
\* the emergency stop is triggered, whatever initialize() read as the
\* start-up balance (nothing, or zero, included).
C40_MonitorTripsEmergencyStop ==
    (/\ last_call.op = "monitor_loop"
     /\ (bot.starting_balance - bot.current_balance) * 100
            >= emergency_stop_loss_pct * bot.starting_balance)
        => emergency_stop_triggered

====
